---- MODULE Spec2Model ----
(***************************************************************************)
(* A model of the lexical-analysis core of 8cc: the scope-chained hash    *)
(* map (map.c), the character stream (file.c) and the pp-token lexer      *)
(* (buffer.c). Each subsystem has its own specification over the shared    *)
(* variables; the variables of the other subsystems stay at their initial *)
(* values.                                                                 *)
(***************************************************************************)
EXTENDS Integers, Sequences, FiniteSets, TLC

VARIABLES
    charSigned,   \* whether plain char is signed in this build (implementation-defined)
    maps,         \* the Map objects: maps[1] is the parent scope, maps[2] its child
    fillPut,      \* number of filler keys put into maps[2] so far
    fillRem,      \* number of filler keys removed from maps[2] so far
    probeOps,     \* number of operations on the colliding keys so far
    bind,         \* ghost: bind[m][k] is the value of the latest put of k not followed by a remove
    lastOp,       \* ghost: the map operation performed by the last step
    lastRehash,   \* ghost: the table before and after the rehash of the last map_put
    files,        \* file.c: the stack of input streams, top last
    stashed,      \* file.c: the stream stacks saved by stream_stash
    err,          \* "" while running, else the fatal error or failed assertion that ended the run
    trail,        \* ghost: the last stream operations, newest last
    lastc,        \* ghost: lastc[id] is the last non-EOF character readc delivered from stream id
    ended,        \* ghost: ids of the streams whose end readc has reported or popped
    made,         \* ghost: made[id] is the content stream id was created with
    buffers,      \* lexer: the stack of token buffers, top last
    pos,          \* lexer: the position recorded by mark()
    statics,      \* lexer: the bol and space flags of space_token, newline_token and eof_token
    rest,         \* ghost: the number of characters the streams had left at the last mark()
    total,        \* ghost: the number of characters the streams had at the start
    log,          \* ghost: the tokens lex() has returned, oldest first
    lineTok,      \* ghost: a token other than a newline was delivered on the current logical line
    call,         \* ghost: the entry point called by the last step, with its arguments and result
    ungot,        \* ghost: the tokens ungotten since the last step that was not unget_token or lex
    levels,       \* ghost: the stashes in effect, newest last, each with the world it was made in
    nops,         \* number of entry point calls so far in the bounded drivers
    vectors,      \* vector.c: the Vector objects the vector driver has created
    strbuf,       \* buffer.c: the Buffer object of the buffer driver
    wrote         \* ghost: the bytes written to strbuf so far, in order

mapVars == <<maps, fillPut, fillRem, probeOps, bind, lastOp, lastRehash>>

streamVars == <<files, stashed, err, trail, lastc, ended, made>>

lexVars == <<buffers, pos, statics, rest, total, log, lineTok>>

callVars == <<call, ungot, levels, nops>>

dataVars == <<vectors, strbuf, wrote>>

vars == <<charSigned, maps, fillPut, fillRem, probeOps, bind, lastOp, lastRehash,
          files, stashed, err, trail, lastc, ended, made,
          buffers, pos, statics, rest, total, log, lineTok,
          call, ungot, levels, nops, vectors, strbuf, wrote>>

(***************************************************************************)
(* Bounds                                                                  *)
(***************************************************************************)
\* number of distinct filler keys that can be bound in the child map at once
MaxFill == 10

\* number of pieces an input file of the lexer is made of, at most
MaxFrags == 4

\* length of an input file of the token buffer driver, at most
MaxTokLen == 2

\* number of calls the token buffer driver makes, at most
MaxTokOps == 6

\* length of a stashed token list, and number of nested stashes, at most
MaxList == 2

MaxStash == 2

\* number of streams the stash driver creates, the first file included, at most
MaxStreams == 3

\* number of map_put and map_remove calls on the colliding keys in one run
MaxProbeOps == 5

\* length of the content of the stream under test
MaxLen == 3

\* number of characters a caller pushes back in a row
MaxUnread == 1

(***************************************************************************)
(* 32-bit unsigned arithmetic, kept as two 16-bit halves                   *)
(***************************************************************************)
RECURSIVE XorBits(_, _, _)
XorBits(a, b, n) ==
    IF n = 0 THEN 0
    ELSE (((a % 2) + (b % 2)) % 2) + (2 * XorBits(a \div 2, b \div 2, n - 1))

\* r ^= c, where c is the int the char promotes to (negative when sign-extended)
XorChar(r, c) ==
    IF c >= 0
    THEN [hi |-> r.hi, lo |-> XorBits(r.lo, c, 16)]
    ELSE [hi |-> XorBits(r.hi, 65535, 16), lo |-> XorBits(r.lo, 65536 + c, 16)]

\* r *= 16777619 (0x01000193) modulo 2^32
MulPrime(r) ==
    LET p == r.lo * 403
    IN  [hi |-> ((r.hi * 403) + (r.lo * 256) + (p \div 65536)) % 65536,
         lo |-> p % 65536]

\* the value of *p for a stored byte b in 0..255
CharVal(b, signed) == IF signed /\ b >= 128 THEN b - 256 ELSE b

(***************************************************************************)
(* map.c                                                                   *)
(***************************************************************************)
INIT_SIZE == 16

\* slot contents: a key is a NUL-terminated byte string
NULL == <<>>
TOMBSTONE == <<-1>>

RECURSIVE hashFrom(_, _, _, _)
hashFrom(p, i, r, signed) ==
    IF p[i] = 0 THEN r
    ELSE hashFrom(p, i + 1, MulPrime(XorChar(r, CharVal(p[i], signed))), signed)

\* 2166136261 = 0x811C9DC5
hash(p, signed) == hashFrom(p, 1, [hi |-> 33052, lo |-> 40389], signed)

\* hash(key) & mask, for mask = size - 1 with size a power of two up to 2^16
HashSlot(key, size, signed) == hash(key, signed).lo % size

strcmp0(a, b) == a = b

do_make_map(parent, size) ==
    [parent |-> parent,
     key |-> [i \in 0..(size - 1) |-> NULL],
     val |-> [i \in 0..(size - 1) |-> 0],
     size |-> size, nelem |-> 0, nused |-> 0]

RECURSIVE RehashProbe(_, _, _)
RehashProbe(k, j, mask) ==
    IF k[j] # NULL THEN RehashProbe(k, (j + 1) % (mask + 1), mask) ELSE j

RECURSIVE RehashLoop(_, _, _, _, _, _)
RehashLoop(m, k, v, mask, i, signed) ==
    IF i >= m.size THEN [key |-> k, val |-> v]
    ELSE IF m.key[i] = NULL \/ m.key[i] = TOMBSTONE
         THEN RehashLoop(m, k, v, mask, i + 1, signed)
         ELSE LET j == RehashProbe(k, HashSlot(m.key[i], mask + 1, signed), mask)
              IN  RehashLoop(m, [k EXCEPT ![j] = m.key[i]],
                             [v EXCEPT ![j] = m.val[i]], mask, i + 1, signed)

\* size = 0 stands for a Map whose key array has not been allocated
NeedsRehash(m) == m.size # 0 /\ ~(m.nused * 10 < m.size * 7)

\* mutant: a rehash always doubles the table
maybe_rehash_alwaysDouble(m, signed) ==
    IF m.size = 0
    THEN [m EXCEPT !.key = [i \in 0..(INIT_SIZE - 1) |-> NULL],
                   !.val = [i \in 0..(INIT_SIZE - 1) |-> 0],
                   !.size = INIT_SIZE]
    ELSE IF m.nused * 10 < m.size * 7 THEN m
    ELSE LET kv == RehashLoop(m, [i \in 0..((m.size * 2) - 1) |-> NULL],
                              [i \in 0..((m.size * 2) - 1) |-> 0], (m.size * 2) - 1, 0, signed)
         IN  [m EXCEPT !.key = kv.key, !.val = kv.val,
                       !.size = m.size * 2, !.nused = m.nelem]

\* mutant: the table is rehashed only when no slot is unused
maybe_rehash_whenFull(m, signed) ==
    IF m.size = 0
    THEN [m EXCEPT !.key = [i \in 0..(INIT_SIZE - 1) |-> NULL],
                   !.val = [i \in 0..(INIT_SIZE - 1) |-> 0],
                   !.size = INIT_SIZE]
    ELSE IF m.nused < m.size THEN m
    ELSE LET newsize == IF m.nelem * 100 < m.size * 35 THEN m.size ELSE m.size * 2
             kv == RehashLoop(m, [i \in 0..(newsize - 1) |-> NULL],
                              [i \in 0..(newsize - 1) |-> 0], newsize - 1, 0, signed)
         IN  [m EXCEPT !.key = kv.key, !.val = kv.val,
                       !.size = newsize, !.nused = m.nelem]

maybe_rehash(m, signed) ==
    IF m.size = 0
    THEN [m EXCEPT !.key = [i \in 0..(INIT_SIZE - 1) |-> NULL],
                   !.val = [i \in 0..(INIT_SIZE - 1) |-> 0],
                   !.size = INIT_SIZE]
    ELSE IF m.nused * 10 < m.size * 7 THEN m
    ELSE LET newsize == IF m.nelem * 100 < m.size * 35 THEN m.size ELSE m.size * 2
             kv == RehashLoop(m, [i \in 0..(newsize - 1) |-> NULL],
                              [i \in 0..(newsize - 1) |-> 0], newsize - 1, 0, signed)
         IN  [m EXCEPT !.key = kv.key, !.val = kv.val,
                       !.size = newsize, !.nused = m.nelem]

RECURSIVE GetProbe(_, _, _)
GetProbe(m, key, i) ==
    IF m.key[i] = NULL THEN 0
    ELSE IF m.key[i] # TOMBSTONE /\ strcmp0(m.key[i], key) THEN m.val[i]
    ELSE GetProbe(m, key, (i + 1) % m.size)

map_get_nostack(m, key, signed) ==
    IF m.size = 0 THEN 0
    ELSE GetProbe(m, key, HashSlot(key, m.size, signed))

RECURSIVE map_get(_, _, _, _)
map_get(ms, i, key, signed) ==
    LET r == map_get_nostack(ms[i], key, signed)
    IN  IF r # 0 THEN r
        ELSE IF ms[i].parent # 0 THEN map_get(ms, ms[i].parent, key, signed)
        ELSE 0

\* mutant: a reused tombstone is counted in nused again
PutSlot_bumpUsed(m, key, val, i, k) ==
    [m EXCEPT !.key[i] = key, !.val[i] = val,
              !.nelem = m.nelem + 1, !.nused = m.nused + 1]

\* the store into slot i, which held k: NULL or TOMBSTONE
PutSlot(m, key, val, i, k) ==
    [m EXCEPT !.key[i] = key, !.val[i] = val,
              !.nelem = m.nelem + 1,
              !.nused = IF k = NULL THEN m.nused + 1 ELSE m.nused]

RECURSIVE PutProbe(_, _, _, _)
PutProbe(m, key, val, i) ==
    LET k == m.key[i]
    IN  IF k = NULL \/ k = TOMBSTONE
        THEN PutSlot(m, key, val, i, k)
        ELSE IF strcmp0(k, key) THEN [m EXCEPT !.val[i] = val]
        ELSE PutProbe(m, key, val, (i + 1) % m.size)

map_put(m, key, val, signed) ==
    LET m1 == maybe_rehash(m, signed)
    IN  PutProbe(m1, key, val, HashSlot(key, m1.size, signed))

RECURSIVE RemoveProbe(_, _, _)
RemoveProbe(m, key, i) ==
    IF m.key[i] = NULL THEN m
    ELSE IF m.key[i] = TOMBSTONE \/ ~strcmp0(m.key[i], key)
         THEN RemoveProbe(m, key, (i + 1) % m.size)
         ELSE [m EXCEPT !.key[i] = TOMBSTONE, !.val[i] = 0, !.nelem = m.nelem - 1]

map_remove(m, key, signed) ==
    IF m.size = 0 THEN m
    ELSE RemoveProbe(m, key, HashSlot(key, m.size, signed))

map_len(m) == m.nelem

make_map == do_make_map(0, INIT_SIZE)

make_map_parent(parent) == do_make_map(parent, INIT_SIZE)

(***************************************************************************)
(* The map driver: two scopes, a few colliding keys and a ring of fillers  *)
(***************************************************************************)
\* "p" and "ay" both hash to slot 15 of a 16- and of a 32-slot table
ProbeKeys == {<<112, 0>>, <<97, 121, 0>>}

\* single letters a b c d g h i k l m f n j o: pairwise different slots
FillKeys == <<<<97, 0>>, <<98, 0>>, <<99, 0>>, <<100, 0>>, <<103, 0>>,
              <<104, 0>>, <<105, 0>>, <<107, 0>>, <<108, 0>>, <<109, 0>>,
              <<102, 0>>, <<110, 0>>, <<106, 0>>, <<111, 0>>>>

NFill == IF MaxFill < Len(FillKeys) THEN MaxFill ELSE Len(FillKeys)

FillSet == {FillKeys[i] : i \in 1..NFill}

AllKeys == ProbeKeys \cup FillSet

\* values are opaque handles; 0 is the null pointer
ValsOf(m) == IF m = 1 THEN {3} ELSE {1, 2}

NoOp == [op |-> "none", m |-> 0, key |-> NULL]

NoRehash == [done |-> FALSE, before |-> make_map, after |-> make_map]

\* no container has been created by a driver
NoBuffer == [body |-> <<>>, nalloc |-> 0, len |-> 0, oob |-> FALSE]

\* no Buffer has been created by a driver
IdleBufVars == strbuf = NoBuffer /\ wrote = <<>>

IdleDataVars == vectors = <<>> /\ IdleBufVars

InitMapVars ==
    /\ maps = <<make_map, make_map_parent(1)>>
    /\ fillPut = 0
    /\ fillRem = 0
    /\ probeOps = 0
    /\ bind = [m \in 1..2 |-> [k \in AllKeys |-> 0]]
    /\ lastOp = NoOp
    /\ lastRehash = NoRehash

\* mutant: a key that only the parent binds is rebound in the parent
DoPut_inParent(m, key, val) ==
    /\ maps' = IF /\ maps[m].parent # 0
                  /\ map_get_nostack(maps[m], key, charSigned) = 0
                  /\ map_get_nostack(maps[maps[m].parent], key, charSigned) # 0
               THEN [maps EXCEPT ![maps[m].parent] = map_put(maps[maps[m].parent], key, val, charSigned)]
               ELSE [maps EXCEPT ![m] = map_put(maps[m], key, val, charSigned)]
    /\ bind' = [bind EXCEPT ![m][key] = val]
    /\ lastOp' = [op |-> "put", m |-> m, key |-> key]
    /\ lastRehash' = IF NeedsRehash(maps[m])
                     THEN [done |-> TRUE, before |-> maps[m],
                           after |-> maybe_rehash(maps[m], charSigned)]
                     ELSE NoRehash

DoPut(m, key, val) ==
    /\ maps' = [maps EXCEPT ![m] = map_put(maps[m], key, val, charSigned)]
    /\ bind' = [bind EXCEPT ![m][key] = val]
    /\ lastOp' = [op |-> "put", m |-> m, key |-> key]
    /\ lastRehash' = IF NeedsRehash(maps[m])
                     THEN [done |-> TRUE, before |-> maps[m],
                           after |-> maybe_rehash(maps[m], charSigned)]
                     ELSE NoRehash

DoRemove(m, key) ==
    /\ maps' = [maps EXCEPT ![m] = map_remove(maps[m], key, charSigned)]
    /\ bind' = [bind EXCEPT ![m][key] = 0]
    /\ lastOp' = [op |-> "remove", m |-> m, key |-> key]
    /\ lastRehash' = NoRehash

\* the parent scope is populated before the child scope is first used
Usable(m) == m = 2 \/ maps[2].nused = 0

\* map_put(m, k, v) for one of the colliding keys, on either scope
Put ==
    \E m \in 1..2, key \in ProbeKeys :
        \E val \in ValsOf(m) :
            /\ Usable(m)
            /\ probeOps < MaxProbeOps
            /\ DoPut(m, key, val)
            /\ probeOps' = probeOps + 1
            /\ UNCHANGED <<charSigned, fillPut, fillRem, dataVars, streamVars, lexVars, callVars>>

\* map_remove(m, k) for one of the colliding keys, on either scope
Remove ==
    \E m \in 1..2, key \in ProbeKeys :
        /\ Usable(m)
        /\ probeOps < MaxProbeOps
        /\ DoRemove(m, key)
        /\ probeOps' = probeOps + 1
        /\ UNCHANGED <<charSigned, fillPut, fillRem, dataVars, streamVars, lexVars, callVars>>

\* map_put of the next filler key into the child scope
PutFill ==
    /\ fillPut < NFill
    /\ DoPut(2, FillKeys[fillPut + 1], 1)
    /\ fillPut' = fillPut + 1
    /\ UNCHANGED <<charSigned, fillRem, probeOps, dataVars, streamVars, lexVars, callVars>>

\* map_remove of the oldest filler key, once all fillers have been put
RemoveFill ==
    /\ fillPut = NFill
    /\ fillRem < fillPut
    /\ DoRemove(2, FillKeys[fillRem + 1])
    /\ fillRem' = fillRem + 1
    /\ UNCHANGED <<charSigned, fillPut, probeOps, dataVars, streamVars, lexVars, callVars>>

\* no stream has been created
IdleStreamVars ==
    /\ files = <<>>
    /\ stashed = <<>>
    /\ err = ""
    /\ trail = <<>>
    /\ lastc = <<>>
    /\ ended = {}
    /\ made = <<>>

\* the token kinds of the lexer's three static tokens
TSPACE == "TSPACE"

TNEWLINE == "TNEWLINE"

TEOF == "TEOF"

StaticKinds == {TSPACE, TNEWLINE, TEOF}

\* the lexer before lex_init
IdleLexVars ==
    /\ buffers = <<>>
    /\ pos = [line |-> 0, column |-> 0]
    /\ statics = [k \in StaticKinds |-> [bol |-> FALSE, space |-> FALSE]]
    /\ rest = 0
    /\ total = 0
    /\ log = <<>>
    /\ lineTok = FALSE
    /\ call = [op |-> "none"]
    /\ ungot = <<>>
    /\ levels = <<>>
    /\ nops = 0

InitMap ==
    /\ charSigned = TRUE
    /\ InitMapVars
    /\ IdleDataVars
    /\ IdleStreamVars
    /\ IdleLexVars

NextMap == Put \/ Remove \/ PutFill \/ RemoveFill

SpecMap == InitMap /\ [][NextMap]_vars

\* what the scope chain binds k to: the nearest non-null binding from m upward
RECURSIVE Bound(_, _)
Bound(m, k) ==
    IF bind[m][k] # 0 THEN bind[m][k]
    ELSE IF maps[m].parent # 0 THEN Bound(maps[m].parent, k)
    ELSE 0

(***************************************************************************)
(* Claims about the map                                                    *)
(***************************************************************************)
\* C1: immediately after map_remove(m, k), map_get(m, k) returns a miss when
\* no ancestor binds k and the nearest ancestor's value otherwise.
C1_GetAfterRemove ==
    lastOp.op = "remove" =>
        map_get(maps, lastOp.m, lastOp.key, charSigned) = Bound(lastOp.m, lastOp.key)

\* C2: while k has been put (non-null value) and not removed since, map_get(m, k)
\* returns the value of the most recent map_put for k.
C2_GetReturnsLatestPut ==
    \A m \in 1..2 : \A k \in AllKeys :
        bind[m][k] # 0 => map_get(maps, m, k, charSigned) = bind[m][k]

\* C3: the rehash of maybe_rehash preserves the bindings: every key is looked
\* up to the same value (or miss) in the table before and after the rehash.
C3_RehashPreservesBindings ==
    lastRehash.done =>
        \A k \in AllKeys :
            map_get_nostack(lastRehash.after, k, charSigned)
                = map_get_nostack(lastRehash.before, k, charSigned)

(***************************************************************************)
(* file.c: the character stream                                            *)
(***************************************************************************)
EOF == -1

\* the capacity of File.buf, the pushback buffer of a stream
BUF_CAP == 3

\* same as make_file: data is the content of the FILE, p the read offset
make_file(id, data) ==
    [id |-> id, isfile |-> TRUE, data |-> data, p |-> 1, last |-> 0,
     buf |-> <<>>, line |-> 1, column |-> 1, ntok |-> 0]

\* data is the string without its terminating NUL, p the cursor
make_file_string(id, data) ==
    [id |-> id, isfile |-> FALSE, data |-> data, p |-> 1, last |-> 0,
     buf |-> <<>>, line |-> 1, column |-> 1, ntok |-> 0]

\* getc(f->file): the next byte as an unsigned char, or EOF
Getc(f) == IF f.p > Len(f.data) THEN EOF ELSE f.data[f.p]

\* the FILE after getc and after ungetc(c, f->file)
GetcAdv(f) == IF f.p > Len(f.data) THEN f ELSE [f EXCEPT !.p = f.p + 1]

Ungetc(c, f) == IF c = EOF THEN f ELSE [f EXCEPT !.p = f.p - 1]

ReadcAtEof(f) == IF f.last = 10 \/ f.last = EOF THEN EOF ELSE 10

\* the FILE part of readc_file at '\r': c2 = getc(), and ungetc(c2) unless it is '\n'
SkipLF(f1, c2) ==
    IF c2 # 10 THEN [Ungetc(c2, GetcAdv(f1)) EXCEPT !.last = 10]
    ELSE [GetcAdv(f1) EXCEPT !.last = 10]

ReadcFileOn(c, f, f1) ==
    IF c = EOF THEN [c |-> ReadcAtEof(f), f |-> [f1 EXCEPT !.last = ReadcAtEof(f)]]
    ELSE IF c = 13 THEN [c |-> 10, f |-> SkipLF(f1, Getc(f1))]
    ELSE [c |-> c, f |-> [f1 EXCEPT !.last = c]]

readc_file(f) == ReadcFileOn(Getc(f), f, GetcAdv(f))

\* *f->p, a plain char: 0 at the terminating NUL
Deref(f, signed) == IF f.p > Len(f.data) THEN 0 ELSE CharVal(f.data[f.p], signed)

\* f->p++
IncP(f) == [f EXCEPT !.p = f.p + 1]

\* mutant: the '\n' of a "\r\n" pair is left in the string
SkipLFString_keepLF(f1, c2) == [f1 EXCEPT !.last = 10]

\* the string cursor after '\r': a following '\n' is skipped
SkipLFString(f1, c2) == IF c2 = 10 THEN [IncP(f1) EXCEPT !.last = 10] ELSE [f1 EXCEPT !.last = 10]

ReadcStringOn(c, f, f1, signed) ==
    IF c = 0 THEN [c |-> ReadcAtEof(f), f |-> [f EXCEPT !.last = ReadcAtEof(f)]]
    ELSE IF c = 13 THEN [c |-> 10, f |-> SkipLFString(f1, Deref(f1, signed))]
    ELSE [c |-> c, f |-> [f1 EXCEPT !.last = c]]

readc_string(f, signed) == ReadcStringOn(Deref(f, signed), f, IncP(f), signed)

vec_tail(v) == v[Len(v)]

SetTail(v, x) == [v EXCEPT ![Len(v)] = x]

vec_pop(v) == SubSeq(v, 1, Len(v) - 1)

\* the pushback buffer first, then the reader of the stream's kind
GetChar(f, signed) ==
    IF Len(f.buf) > 0
    THEN [c |-> f.buf[Len(f.buf)], f |-> [f EXCEPT !.buf = vec_pop(f.buf)]]
    ELSE IF f.isfile THEN readc_file(f)
    ELSE readc_string(f, signed)

\* the position of the stream after get() has read c
Advance(f, c) ==
    IF c = 10 THEN [f EXCEPT !.line = f.line + 1, !.column = 1]
    ELSE IF c # EOF THEN [f EXCEPT !.column = f.column + 1]
    ELSE f

GetOn(w, r) == [c |-> r.c, w |-> [w EXCEPT !.files = SetTail(w.files, Advance(r.f, r.c))]]

\* a stream world w has the fields files and err (and more in the lexer)
get(w, signed) == GetOn(w, GetChar(vec_tail(w.files), signed))

UnreadcOn(f, c) ==
    IF c = 10
    THEN [f EXCEPT !.buf = Append(f.buf, c), !.column = 1, !.line = f.line - 1]
    ELSE [f EXCEPT !.buf = Append(f.buf, c), !.column = f.column - 1]

\* mutant: the pushback buffer holds two characters
unreadc_cap2(w, c) ==
    IF c = EOF THEN w
    ELSE IF ~(Len(vec_tail(w.files).buf) < 2) THEN [w EXCEPT !.err = "assert"]
    ELSE [w EXCEPT !.files = SetTail(w.files, UnreadcOn(vec_tail(w.files), c))]

unreadc(w, c) ==
    IF c = EOF THEN w
    ELSE IF ~(Len(vec_tail(w.files).buf) < BUF_CAP) THEN [w EXCEPT !.err = "assert"]
    ELSE [w EXCEPT !.files = SetTail(w.files, UnreadcOn(vec_tail(w.files), c))]

RECURSIVE readc(_, _)

\* mutant: the lookahead after a backslash is not pushed back
ReadcSplice_dropLookahead(r2, signed) ==
    IF r2.c = 10 THEN readc(r2.w, signed)
    ELSE [c |-> 92, w |-> r2.w]

\* readc after a backslash, r2 being the get() that follows it
ReadcSplice(r2, signed) ==
    IF r2.c = 10 THEN readc(r2.w, signed)
    ELSE [c |-> 92, w |-> unreadc(r2.w, r2.c)]

ReadcOn(r, signed) ==
    IF r.c = EOF
    THEN IF Len(r.w.files) = 1 THEN r
         ELSE readc([r.w EXCEPT !.files = vec_pop(r.w.files)], signed)
    ELSE IF r.c # 92 THEN r
    ELSE ReadcSplice(get(r.w, signed), signed)

readc(w, signed) == ReadcOn(get(w, signed), signed)

current_file(w) == vec_tail(w.files)

stream_push(w, f) == [w EXCEPT !.files = Append(w.files, f)]

stream_depth(w) == Len(w.files)

\* mutant: the new stream goes on top of the current stack
stream_stash_push(w, f) ==
    [w EXCEPT !.stashed = Append(w.stashed, w.files), !.files = Append(w.files, f)]

stream_stash(w, f) == [w EXCEPT !.stashed = Append(w.stashed, w.files), !.files = <<f>>]

stream_unstash(w) == [w EXCEPT !.files = vec_tail(w.stashed), !.stashed = vec_pop(w.stashed)]

(***************************************************************************)
(* The stream driver: one stream under test, alone or on top of a base     *)
(* file, read with readc and pushed back with unreadc                      *)
(***************************************************************************)
\* a letter, newline, carriage return, backslash and the byte 0xFF
StreamBytes == {97, 10, 13, 92, 255}

Contents == UNION {[1..n -> StreamBytes] : n \in 0..MaxLen}

\* the files a stream under test is pushed onto: "a" and "\n"
BaseContents == {<<97>>, <<10>>}

World == [files |-> files, stashed |-> stashed, err |-> err]

\* the next n results of get() on the active stream
RECURSIVE GetSeq(_, _, _)

GetSeqOn(r, n, signed) == <<r.c>> \o GetSeq(r.w, n - 1, signed)

GetSeq(w, n, signed) == IF n = 0 THEN <<>> ELSE GetSeqOn(get(w, signed), n, signed)

\* the number of leading backslash-newline pairs of a get() sequence
RECURSIVE Splices(_)
Splices(g) ==
    IF Len(g) >= 2 /\ g[1] = 92 /\ g[2] = 10
    THEN 1 + Splices(SubSeq(g, 3, Len(g)))
    ELSE 0

LookLen == (2 * MaxLen) + 2

LookOn(g, k) == [k |-> k, h |-> g[(2 * k) + 1], h2 |-> g[(2 * k) + 2], h3 |-> g[(2 * k) + 3]]

LookIn(g) == LookOn(g, Splices(g))

\* what get() has in store before a readc: k spliced pairs, then h, h2, h3
Look(w, signed) == LookIn(GetSeq(w, LookLen, signed) \o <<EOF, EOF, EOF>>)

TrailLen == (2 * MaxUnread) + 1

Keep(t) == IF Len(t) > TrailLen THEN SubSeq(t, Len(t) - TrailLen + 1, Len(t)) ELSE t

RECURSIVE TrailingUnreads(_)
TrailingUnreads(t) ==
    IF Len(t) > 0 /\ t[Len(t)].op = "unreadc"
    THEN 1 + TrailingUnreads(SubSeq(t, 1, Len(t) - 1))
    ELSE 0

Ids(fs) == {fs[i].id : i \in 1..Len(fs)}

InitStream ==
    /\ charSigned \in BOOLEAN
    /\ InitMapVars
    /\ IdleDataVars
    /\ \E data \in Contents, isfile \in BOOLEAN, base \in {<<>>} \cup {<<b>> : b \in BaseContents} :
          LET n == Len(base)
              top == IF isfile THEN make_file(n + 1, data) ELSE make_file_string(n + 1, data)
          IN  /\ files = IF n = 0 THEN <<top>> ELSE <<make_file(1, base[1]), top>>
              /\ made = IF n = 0 THEN <<data>> ELSE <<base[1], data>>
              /\ lastc = [i \in 1..(n + 1) |-> 0]
    /\ stashed = <<>>
    /\ err = ""
    /\ trail = <<>>
    /\ ended = {}
    /\ IdleLexVars

ReadcEvent(r, f0, f1, look) ==
    [op |-> "readc", c |-> r.c, line |-> f1.line, column |-> f1.column,
     id |-> f1.id, id0 |-> f0.id, line0 |-> f0.line,
     k |-> look.k, h |-> look.h, h2 |-> look.h2, h3 |-> look.h3]

ReadcDone(r, f0, f1, look) ==
    /\ files' = r.w.files
    /\ err' = r.w.err
    /\ trail' = Keep(Append(trail, ReadcEvent(r, f0, f1, look)))
    /\ lastc' = IF r.c = EOF THEN lastc ELSE [lastc EXCEPT ![f1.id] = r.c]
    /\ ended' = ended \cup (Ids(files) \ Ids(r.w.files))
                      \cup (IF r.c = EOF THEN {f1.id} ELSE {})

ReadcTop(r, look) == ReadcDone(r, vec_tail(files), vec_tail(r.w.files), look)

\* c = readc()
Readc ==
    /\ err = ""
    /\ Len(files) > 0
    /\ ReadcTop(readc(World, charSigned), Look(World, charSigned))
    /\ UNCHANGED <<charSigned, mapVars, dataVars, stashed, made, lexVars, callVars>>

UnreadcEvent(c, f1) ==
    [op |-> "unreadc", c |-> c, line |-> f1.line, column |-> f1.column,
     id |-> f1.id, id0 |-> f1.id, line0 |-> 0, k |-> 0, h |-> EOF, h2 |-> EOF, h3 |-> EOF]

UnreadcDone(c, w) ==
    /\ files' = w.files
    /\ err' = w.err
    /\ trail' = Keep(Append(trail, UnreadcEvent(c, vec_tail(w.files))))

UnreadcOf(c) == UnreadcDone(c, unreadc(World, c))

UnreadcAt(k, i) ==
    /\ k < MaxUnread
    /\ i >= 1
    /\ trail[i].op = "readc"
    /\ UnreadcOf(trail[i].c)

UnreadcAfter(k) == UnreadcAt(k, Len(trail) - (2 * k))

\* unreadc(c) of the most recently read character that is not yet pushed back
Unreadc ==
    /\ err = ""
    /\ Len(files) > 0
    /\ UnreadcAfter(TrailingUnreads(trail))
    /\ UNCHANGED <<charSigned, mapVars, dataVars, stashed, lastc, ended, made, lexVars, callVars>>

NextStream == Readc \/ Unreadc

SpecStream == InitStream /\ [][NextStream]_vars

TypeOKStream == \A i \in 1..Len(files) : Len(files[i].buf) <= BUF_CAP

(***************************************************************************)
(* Claims about the character stream                                       *)
(***************************************************************************)
EndsInNewline(data) == Len(data) > 0 /\ data[Len(data)] = 10

\* C4: every stream appears to readc to end with '\n' followed by EOF: when
\* readc reports or passes the end of a stream, the last non-EOF character it
\* delivered from that stream is '\n', also when the content does not end in one.
C4_LastCharIsNewline ==
    \A id \in ended : lastc[id] = 10

\* the line endings ("\r\n", lone "\r", lone "\n") among the first n bytes
RECURSIVE LineEnds(_, _)
LineEnds(data, n) ==
    IF n = 0 THEN 0
    ELSE LineEnds(data, n - 1)
         + (IF data[n] = 13 THEN 1
            ELSE IF data[n] = 10 /\ ~(n > 1 /\ data[n - 1] = 13) THEN 1
            ELSE 0)

Newlines(b) == Cardinality({i \in 1..Len(b) : b[i] = 10})

\* the newlines a reader may make up: one, at the end of content that does
\* not end in a line ending
MaySynthesize(f) ==
    /\ f.p > Len(f.data)
    /\ ~(Len(f.data) > 0 /\ f.data[Len(f.data)] \in {10, 13})

\* C5: readc never returns '\r'; each "\r\n" and each lone '\r' of a stream
\* reaches readc as exactly one '\n' (one line counted per line ending consumed,
\* net of pushback), and content ending in '\r' gets no synthesized newline.
C5_CarriageReturns ==
    /\ \A i \in 1..Len(trail) : trail[i].op = "readc" => trail[i].c # 13
    /\ \A i \in 1..Len(files) :
          LET f == files[i]
              d == ((f.line - 1) + Newlines(f.buf)) - LineEnds(f.data, f.p - 1)
          IN  d = 0 \/ (d = 1 /\ MaySynthesize(f))

C5_Witness ==
    /\ Len(trail) > 0
    /\ trail[Len(trail)].op = "readc"
    /\ trail[Len(trail)].c = 10
    /\ \E i \in 1..Len(files) :
          /\ files[i].id = trail[Len(trail)].id
          /\ files[i].p > Len(files[i].data)
          /\ Len(files[i].data) > 0
          /\ files[i].data[Len(files[i].data)] = 13
          /\ files[i].last = 10

\* C6: readc returning c, then unreadc(c), then readc: the second readc returns
\* the same c and leaves line and column as they were after the first.
C6_ReadUnreadRead ==
    (/\ err = ""
     /\ Len(trail) >= 3
     /\ trail[Len(trail)].op = "readc"
     /\ trail[Len(trail) - 1].op = "unreadc"
     /\ trail[Len(trail) - 2].op = "readc")
    => /\ trail[Len(trail)].c = trail[Len(trail) - 2].c
       /\ trail[Len(trail)].line = trail[Len(trail) - 2].line
       /\ trail[Len(trail)].column = trail[Len(trail) - 2].column

\* C7: readc delivers neither character of a backslash-newline pair, the line
\* counter still advances by one per spliced newline, and a backslash followed
\* by any other character is delivered and then that character.
C7_LineSplicing ==
    /\ (/\ err = ""
        /\ Len(trail) >= 1
        /\ trail[Len(trail)].op = "readc"
        /\ trail[Len(trail)].h # EOF)
       => LET e == trail[Len(trail)]
          IN  /\ e.c = e.h
              /\ e.id = e.id0
              /\ e.line = e.line0 + e.k + (IF e.h = 10 THEN 1 ELSE 0)
    /\ (/\ err = ""
        /\ Len(trail) >= 2
        /\ trail[Len(trail)].op = "readc"
        /\ trail[Len(trail) - 1].op = "readc"
        /\ trail[Len(trail) - 1].c = 92
        /\ trail[Len(trail) - 1].h2 # EOF)
       => trail[Len(trail)].c = trail[Len(trail) - 1].h2

\* C7 as amended: as C7, except that the character after a delivered backslash
\* is not delivered when it is itself a backslash followed by a newline.
C7_LineSplicingAmended ==
    /\ (/\ err = ""
        /\ Len(trail) >= 1
        /\ trail[Len(trail)].op = "readc"
        /\ trail[Len(trail)].h # EOF)
       => LET e == trail[Len(trail)]
          IN  /\ e.c = e.h
              /\ e.id = e.id0
              /\ e.line = e.line0 + e.k + (IF e.h = 10 THEN 1 ELSE 0)
    /\ (/\ err = ""
        /\ Len(trail) >= 2
        /\ trail[Len(trail)].op = "readc"
        /\ trail[Len(trail) - 1].op = "readc"
        /\ trail[Len(trail) - 1].c = 92
        /\ trail[Len(trail) - 1].h2 # EOF
        /\ ~(trail[Len(trail) - 1].h2 = 92 /\ trail[Len(trail) - 1].h3 = 10))
       => trail[Len(trail)].c = trail[Len(trail) - 1].h2

C7_Witness ==
    /\ err = ""
    /\ Len(trail) >= 1
    /\ trail[Len(trail)].op = "readc"
    /\ trail[Len(trail)].k >= 1
    /\ trail[Len(trail)].h = 97

\* nothing is left to read in stream f
Exhausted(f) == f.buf = <<>> /\ f.p > Len(f.data)

\* C13: readc never empties the stream stack, returns EOF only from the
\* bottom stream and only when that stream is exhausted, and after popping
\* a stream delivers the next character of the stream beneath
C13_EofOnlyAtBottom ==
    /\ Len(files) >= 1
    /\ \A i \in 1..Len(trail) :
          (trail[i].op = "readc" /\ trail[i].c = EOF) => trail[i].id = 1
    /\ (Len(trail) >= 1 /\ trail[Len(trail)].op = "readc" /\ trail[Len(trail)].c = EOF)
          => (Len(files) = 1 /\ Exhausted(files[1]))
    /\ \A i \in 1..Len(trail) :
          (trail[i].op = "readc" /\ trail[i].id # trail[i].id0)
              => (trail[i].id = 1 /\ trail[i].c = made[1][1])

\* the same on builds whose plain char is unsigned
C13_EofOnlyAtBottomUnsigned == charSigned \/ C13_EofOnlyAtBottom

\* readc popped the top stream and delivered the first character of the stream beneath
C13_Popped ==
    /\ Len(trail) >= 1
    /\ trail[Len(trail)].op = "readc"
    /\ trail[Len(trail)].id # trail[Len(trail)].id0

(***************************************************************************)
(* The stream stash under test: one file, then readc(), unreadc(),         *)
(* stream_stash() of a new string stream and stream_unstash() in any order.*)
(***************************************************************************)
\* the file the driver starts with: "a\n"
StashBase == <<97, 10>>

\* the strings handed to stream_stash: "", "a", "\\", "\n"
StashContents == {<<>>, <<97>>, <<92>>, <<10>>}

InitStash ==
    /\ charSigned \in BOOLEAN
    /\ InitMapVars
    /\ IdleDataVars
    /\ files = <<make_file(1, StashBase)>>
    /\ made = <<StashBase>>
    /\ lastc = <<0>>
    /\ stashed = <<>>
    /\ err = ""
    /\ trail = <<>>
    /\ ended = {}
    /\ IdleLexVars

StashReadcDone(r) ==
    /\ files' = r.w.files
    /\ err' = r.w.err
    /\ call' = [op |-> "readc", c |-> r.c, id |-> vec_tail(r.w.files).id]

\* c = readc()
StashReadc ==
    /\ err = ""
    /\ Len(files) > 0
    /\ StashReadcDone(readc(World, charSigned))
    /\ UNCHANGED <<charSigned, mapVars, dataVars, stashed, trail, lastc, ended, made, lexVars,
                   ungot, levels, nops>>

StashUnreadcDone(w) ==
    /\ files' = w.files
    /\ err' = w.err
    /\ call' = [op |-> "unreadc"]

\* unreadc(c) of the character read by the step before
StashUnreadc ==
    /\ err = ""
    /\ call.op = "readc"
    /\ StashUnreadcDone(unreadc(World, call.c))
    /\ UNCHANGED <<charSigned, mapVars, dataVars, stashed, trail, lastc, ended, made, lexVars,
                   ungot, levels, nops>>

StashDoneOn(w, data) ==
    /\ files' = w.files
    /\ stashed' = w.stashed
    /\ made' = Append(made, data)
    /\ levels' = Append(levels, [id |-> Len(made) + 1, before |-> World])
    /\ call' = [op |-> "stream_stash"]

\* stream_stash(make_file_string(s))
StreamStash ==
    /\ err = ""
    /\ Len(files) > 0
    /\ Len(made) < MaxStreams
    /\ \E data \in StashContents :
          StashDoneOn(stream_stash(World, make_file_string(Len(made) + 1, data)), data)
    /\ UNCHANGED <<charSigned, mapVars, dataVars, err, trail, lastc, ended, lexVars, ungot, nops>>

UnstashDoneOn(w) ==
    /\ files' = w.files
    /\ stashed' = w.stashed
    /\ levels' = vec_pop(levels)
    /\ call' = [op |-> "stream_unstash", level |-> vec_tail(levels), top |-> vec_tail(files)]

\* stream_unstash()
StreamUnstash ==
    /\ err = ""
    /\ Len(stashed) > 0
    /\ UnstashDoneOn(stream_unstash(World))
    /\ UNCHANGED <<charSigned, mapVars, dataVars, err, trail, made, lastc, ended, lexVars, ungot, nops>>

NextStash == StashReadc \/ StashUnreadc \/ StreamStash \/ StreamUnstash

SpecStash == InitStash /\ [][NextStash]_vars

\* C14: while a stashed stream is in effect it is the only stream on the
\* stack, so readc delivers its characters and its EOF only, and the saved
\* stacks are not touched; stream_unstash puts back the stack of the
\* matching stream_stash as it was, nested stashes last first
C14_StashRestores ==
    /\ levels # <<>> =>
          /\ Len(files) = 1
          /\ files[1].id = vec_tail(levels).id
          /\ stashed = Append(vec_tail(levels).before.stashed, vec_tail(levels).before.files)
          /\ call.op = "readc" => call.id = vec_tail(levels).id
    /\ call.op = "stream_unstash" =>
          (files = call.level.before.files /\ stashed = call.level.before.stashed)

\* the inner of two nested stashed streams was read to its EOF and
\* unstashed, over a stream with a character pushed back
C14_Witness ==
    /\ call.op = "stream_unstash"
    /\ call.top.last = EOF
    /\ Len(stashed) = 1
    /\ Len(files[1].buf) > 0

(***************************************************************************)
(* The tokenizer (buffer.c).  A lexer world w extends the stream world     *)
(* with the token buffers, the marked position and the static tokens.      *)
(* Operations return the world they leave, with their result beside it.    *)
(***************************************************************************)
TIDENT == "TIDENT"

TKEYWORD == "TKEYWORD"

TINVALID == "TINVALID"

TSTRING == "TSTRING"

TNUMBER == "TNUMBER"

TCHAR == "TCHAR"

ENC_NONE == "ENC_NONE"

ENC_CHAR16 == "ENC_CHAR16"

ENC_CHAR32 == "ENC_CHAR32"

ENC_UTF8 == "ENC_UTF8"

ENC_WCHAR == "ENC_WCHAR"

\* ids of the multi-character operators used by the modelled cases
KHASHHASH == 256

OP_A_MUL == 257

OP_EQ == 258

OP_NE == 259

OP_A_XOR == 260

OP_A_DIV == 261

OP_A_MOD == 262

OP_INC == 263

OP_A_ADD == 264

OP_LOGAND == 265

OP_A_AND == 266

OP_LOGOR == 267

OP_A_OR == 268

OP_A_SAL == 269

OP_SAL == 270

OP_LE == 271

OP_GE == 272

OP_A_SAR == 273

OP_SAR == 274

KELLIPSIS == 275

OP_DEC == 276

OP_ARROW == 277

OP_A_SUB == 278

\* a zeroed Token; `at` is a ghost field: the number of characters the
\* streams had left when the token's first character was about to be read
Blank ==
    [kind |-> "", id |-> 0, sval |-> <<>>, slen |-> 0, enc |-> "", c |-> 0, file |-> 0,
     line |-> 0, column |-> 0, count |-> 0, bol |-> FALSE, space |-> FALSE, at |-> 0]

\* a pointer to one of the static tokens; its flags live in w.statics
StaticToken(kind) == [Blank EXCEPT !.kind = kind]

\* the number of characters readc still delivers
RECURSIVE CharsLeft(_, _)

CharsLeftOn(r, s) == IF r.c = EOF THEN 0 ELSE 1 + CharsLeft(r.w, s)

CharsLeft(w, s) == CharsLeftOn(readc(w, s), s)

GetPosOf(f, delta) == [line |-> f.line, column |-> f.column + delta]

get_pos(w, delta) == GetPosOf(current_file(w), delta)

mark(w, s) == [w EXCEPT !.pos = get_pos(w, 0), !.rest = CharsLeft(w, s)]

MakeTokenOn(w, tmpl, f) ==
    [tok |-> [tmpl EXCEPT !.file = f.id, !.line = w.pos.line, !.column = w.pos.column,
                          !.count = f.ntok, !.at = w.rest],
     w |-> [w EXCEPT !.files = SetTail(w.files, [f EXCEPT !.ntok = f.ntok + 1])]]

make_token(w, tmpl) == MakeTokenOn(w, tmpl, current_file(w))

make_ident(w, p) == make_token(w, [Blank EXCEPT !.kind = TIDENT, !.sval = p])

make_keyword(w, id) == make_token(w, [Blank EXCEPT !.kind = TKEYWORD, !.id = id])

make_invalid(w, c) == make_token(w, [Blank EXCEPT !.kind = TINVALID, !.c = c])

make_char(w, c, enc) == make_token(w, [Blank EXCEPT !.kind = TCHAR, !.c = c, !.enc = enc])

make_number(w, p) == make_token(w, [Blank EXCEPT !.kind = TNUMBER, !.sval = p])

make_strtok(w, p, len, enc) ==
    make_token(w, [Blank EXCEPT !.kind = TSTRING, !.sval = p, !.slen = len, !.enc = enc])

iswhitespace(c) == c \in {32, 9, 12, 11}

PeekOn(r) == [c |-> r.c, w |-> unreadc(r.w, r.c)]

peek(w, s) == PeekOn(readc(w, s))

NextOn(r, expect) ==
    IF r.c = expect THEN [b |-> TRUE, w |-> r.w]
    ELSE [b |-> FALSE, w |-> unreadc(r.w, r.c)]

next(w, expect, s) == NextOn(readc(w, s), expect)

RECURSIVE skip_line(_, _)

SkipLineOn(r, s) ==
    IF r.c = EOF THEN r.w
    ELSE IF r.c = 10 THEN unreadc(r.w, r.c)
    ELSE skip_line(r.w, s)

skip_line(w, s) == SkipLineOn(readc(w, s), s)

\* errorp(...): the process exits with a fatal error, unless a failed assertion
\* has ended it before
errorp(w) == IF w.err = "assert" THEN w ELSE [w EXCEPT !.err = "error"]

\* errorp(p, ...): the same, errpos keeping the position that is reported
errorp_at(w, p) == IF w.err = "assert" THEN w ELSE [w EXCEPT !.err = "error", !.errpos = p]

RECURSIVE SkipBlockLoop(_, _, _, _)

SkipBlockOn(r, maybe_end, p, s) ==
    IF r.c = EOF THEN errorp_at(r.w, p)
    ELSE IF r.c = 47 /\ maybe_end THEN r.w
    ELSE SkipBlockLoop(r.w, r.c = 42, p, s)

SkipBlockLoop(w, maybe_end, p, s) == SkipBlockOn(readc(w, s), maybe_end, p, s)

\* Pos p = get_pos(-2);
skip_block_comment(w, s) == SkipBlockLoop(w, FALSE, get_pos(w, -2), s)

\* do_skip_space after '/' that is not followed by '*'
SkipSlashSlash(n2, c, s) ==
    IF n2.b THEN [b |-> TRUE, w |-> skip_line(n2.w, s)]
    ELSE [b |-> FALSE, w |-> unreadc(n2.w, c)]

\* do_skip_space after '/'
SkipSlash(n1, c, s) ==
    IF n1.b THEN [b |-> TRUE, w |-> skip_block_comment(n1.w, s)]
    ELSE SkipSlashSlash(next(n1.w, 47, s), c, s)

DoSkipSpaceOn(r, s) ==
    IF r.c = EOF THEN [b |-> FALSE, w |-> r.w]
    ELSE IF iswhitespace(r.c) THEN [b |-> TRUE, w |-> r.w]
    ELSE IF r.c = 47 THEN SkipSlash(next(r.w, 42, s), r.c, s)
    ELSE [b |-> FALSE, w |-> unreadc(r.w, r.c)]

do_skip_space(w, s) == DoSkipSpaceOn(readc(w, s), s)

\* while (do_skip_space());
RECURSIVE SkipSpaces(_, _)

SkipSpacesOn(d, s) == IF d.b THEN SkipSpaces(d.w, s) ELSE d.w

SkipSpaces(w, s) == SkipSpacesOn(do_skip_space(w, s), s)

SkipSpaceOn(d, s) ==
    IF ~d.b THEN [b |-> FALSE, w |-> d.w]
    ELSE [b |-> TRUE, w |-> SkipSpaces(d.w, s)]

skip_space(w, s) == SkipSpaceOn(do_skip_space(w, s), s)

\* c = readc(); while (c != EOF && c != '\'') c = readc();
RECURSIVE SkipCharLoop(_, _)

SkipCharLoopOn(r, s) == IF r.c # EOF /\ r.c # 39 THEN SkipCharLoop(r.w, s) ELSE r.w

SkipCharLoop(w, s) == SkipCharLoopOn(readc(w, s), s)

SkipCharOn(r, s) == IF r.c = 92 THEN SkipCharLoop(readc(r.w, s).w, s) ELSE SkipCharLoop(r.w, s)

skip_char(w, s) == SkipCharOn(readc(w, s), s)

RECURSIVE skip_string(_, _)

SkipStringOn(r, s) ==
    IF r.c = EOF \/ r.c = 34 THEN r.w
    ELSE IF r.c = 92 THEN skip_string(readc(r.w, s).w, s)
    ELSE skip_string(r.w, s)

skip_string(w, s) == SkipStringOn(readc(w, s), s)

\* a case of the lexer that this model does not cover; no input of the model reaches one
isalnum(c) == (c >= 48 /\ c <= 57) \/ (c >= 65 /\ c <= 90) \/ (c >= 97 /\ c <= 122)

\* isalnum(c) || (c & 0x80) || c == '_' || c == '$', for the char c that readc's result v becomes:
\* EOF becomes (char)-1, whose bit 0x80 is set
IdentCont(v) == v = EOF \/ v >= 128 \/ isalnum(v) \/ v = 95 \/ v = 36

\* unreadc(c); buf_write(b, '\0'); return make_ident(buf_body(b));
IdentEnd(w, c, b) == make_ident(unreadc(w, c), Append(b, 0))

HashDigraphMade(m) == [ok |-> TRUE, tok |-> m.tok, w |-> m.w]

\* mutant: the '%' read ahead is not pushed back
HashDigraph4_dropPercent(n4) ==
    IF n4.b THEN HashDigraphMade(make_keyword(n4.w, KHASHHASH))
    ELSE HashDigraphMade(make_keyword(n4.w, 35))

HashDigraph4(n4) ==
    IF n4.b THEN HashDigraphMade(make_keyword(n4.w, KHASHHASH))
    ELSE HashDigraphMade(make_keyword(unreadc(n4.w, 37), 35))

HashDigraph3(n3, s) ==
    IF n3.b THEN HashDigraph4(next(n3.w, 58, s))
    ELSE HashDigraphMade(make_keyword(n3.w, 35))

HashDigraph2(n2, s) ==
    IF n2.b THEN HashDigraph3(next(n2.w, 37, s), s)
    ELSE [ok |-> FALSE, tok |-> Blank, w |-> n2.w]

HashDigraph1(n1, s) ==
    IF n1.b THEN HashDigraphMade(make_keyword(n1.w, 125))
    ELSE HashDigraph2(next(n1.w, 58, s), s)

\* ok is FALSE where the function returns NULL
read_hash_digraph(w, s) == HashDigraph1(next(w, 62, s), s)

ReadRepOn(n, t1, els) == make_keyword(n.w, IF n.b THEN t1 ELSE els)

read_rep(w, expect, t1, els, s) == ReadRepOn(next(w, expect, s), t1, els)

ReadRep2On(n, t1, expect2, t2, els, s) ==
    IF n.b THEN make_keyword(n.w, t1)
    ELSE read_rep(n.w, expect2, t2, els, s)

read_rep2(w, expect1, t1, expect2, t2, els, s) ==
    ReadRep2On(next(w, expect1, s), t1, expect2, t2, els, s)

\* buf_write(b, c): c is stored as a char
buf_write(b, c) == Append(b, c % 256)

\* the bytes write_utf8 appends for a code point below 0x200000
write_utf8(b, rune) ==
    IF rune < 128 THEN Append(b, rune)
    ELSE IF rune < 2048 THEN b \o <<192 + (rune \div 64), 128 + (rune % 64)>>
    ELSE IF rune < 65536
    THEN b \o <<224 + (rune \div 4096), 128 + ((rune \div 64) % 64), 128 + (rune % 64)>>
    ELSE b \o <<240 + (rune \div 262144), 128 + ((rune \div 4096) % 64),
                128 + ((rune \div 64) % 64), 128 + (rune % 64)>>

isxdigit(c) == (c >= 48 /\ c <= 57) \/ (c >= 97 /\ c <= 102) \/ (c >= 65 /\ c <= 70)

\* the value of a hexadecimal digit
HexVal(c) == IF c <= 57 THEN c - 48 ELSE IF c >= 97 THEN c - 97 + 10 ELSE c - 65 + 10

IsOct(c) == c >= 48 /\ c <= 55

Oct4(rd, r) == [c |-> r * 8 + (rd.c - 48), w |-> rd.w]

Oct3(p, r, s) == IF IsOct(p.c) THEN Oct4(readc(p.w, s), r) ELSE [c |-> r, w |-> p.w]

Oct2(rd, r, s) == Oct3(peek(rd.w, s), r * 8 + (rd.c - 48), s)

Oct1(p, r, s) == IF IsOct(p.c) THEN Oct2(readc(p.w, s), r, s) ELSE [c |-> r, w |-> p.w]

read_octal_char(w, c, s) == Oct1(peek(w, s), c - 48, s)

\* r = (r << 4) | digit on the int r: from the eighth digit on the shift leaves the range
\* of int, and the value wraps to 32 bits in two's complement as the usual builds do
HexShift(r, d) ==
    IF (r \div 134217728) % 2 = 1 THEN (((r % 134217728) * 16 + d) - 2147483647) - 1
    ELSE (r % 134217728) * 16 + d

RECURSIVE HexLoop(_, _, _)
HexLoop(r, rd, s) ==
    IF isxdigit(rd.c) THEN HexLoop(HexShift(r, HexVal(rd.c)), readc(rd.w, s), s)
    ELSE [c |-> r, w |-> unreadc(rd.w, rd.c)]

HexFirst(rd, s) == IF isxdigit(rd.c) THEN HexLoop(0, rd, s) ELSE [c |-> 0, w |-> errorp(rd.w)]

read_hex_char(w, s) == HexFirst(readc(w, s), s)

\* is_valid_ucn without the test for surrogates
is_valid_ucn_noSurrogates(c) == c >= 160 \/ c = 36 \/ c = 64 \/ c = 96

is_valid_ucn(c) ==
    IF c >= 55296 /\ c <= 57343 THEN FALSE
    ELSE c >= 160 \/ c = 36 \/ c = 64 \/ c = 96

RECURSIVE read_universal_loop(_, _, _, _)

\* r = (r << 4) | digit on the unsigned int r: eight digits never overflow it; the values
\* from 2^31 on, which is_valid_ucn accepts and write_utf8 rejects alike, are kept as 2^31 - 1
UniversalShift(r, d) == IF r >= 134217728 THEN 2147483647 ELSE r * 16 + d

UniversalOn(rd, n, r, s) ==
    IF isxdigit(rd.c) THEN read_universal_loop(rd.w, n - 1, UniversalShift(r, HexVal(rd.c)), s)
    ELSE [c |-> r, w |-> errorp(rd.w)]

\* n digits are still to be read
read_universal_loop(w, n, r, s) ==
    IF n > 0 THEN UniversalOn(readc(w, s), n, r, s)
    ELSE IF is_valid_ucn(r) THEN [c |-> r, w |-> w]
    ELSE [c |-> r, w |-> errorp(w)]

read_universal_char(w, len, s) == read_universal_loop(w, len, 0, s)

EscapedOn(rd, s) ==
    IF rd.c = 97 THEN [c |-> 7, w |-> rd.w]
    ELSE IF rd.c = 98 THEN [c |-> 8, w |-> rd.w]
    ELSE IF rd.c = 102 THEN [c |-> 12, w |-> rd.w]
    ELSE IF rd.c = 110 THEN [c |-> 10, w |-> rd.w]
    ELSE IF rd.c = 114 THEN [c |-> 13, w |-> rd.w]
    ELSE IF rd.c = 116 THEN [c |-> 9, w |-> rd.w]
    ELSE IF rd.c = 118 THEN [c |-> 11, w |-> rd.w]
    ELSE IF rd.c = 101 THEN [c |-> 27, w |-> rd.w]
    ELSE IF rd.c = 120 THEN read_hex_char(rd.w, s)
    ELSE IF rd.c = 117 THEN read_universal_char(rd.w, 4, s)
    ELSE IF rd.c = 85 THEN read_universal_char(rd.w, 8, s)
    ELSE IF IsOct(rd.c) THEN read_octal_char(rd.w, rd.c, s)
    ELSE [c |-> rd.c, w |-> rd.w]

read_escaped_char(w, s) == EscapedOn(readc(w, s), s)

RECURSIVE read_string_loop(_, _, _, _)

\* after c = read_escaped_char(): write_utf8 fails on a code point from 0x200000 on
StringEscaped(isucs, e, b, enc, s) ==
    IF e.w.err # "" THEN [tok |-> Blank, w |-> e.w]
    ELSE IF isucs /\ e.c >= 2097152 THEN [tok |-> Blank, w |-> errorp(e.w)]
    ELSE IF isucs THEN read_string_loop(e.w, write_utf8(b, e.c), enc, s)
    ELSE read_string_loop(e.w, buf_write(b, e.c), enc, s)

StringPeek2(p2, b, enc, s) == StringEscaped(p2.c = 85, read_escaped_char(p2.w, s), b, enc, s)

\* bool isucs = (peek() == 'u' || peek() == 'U');
StringPeek1(p1, b, enc, s) ==
    IF p1.c = 117 THEN StringEscaped(TRUE, read_escaped_char(p1.w, s), b, enc, s)
    ELSE StringPeek2(peek(p1.w, s), b, enc, s)

\* buf_write(b, '\0'); return make_strtok(buf_body(b), buf_len(b), enc);
StringEnd(w, b, enc) == make_strtok(w, b, Len(b), enc)

StringOn(rd, b, enc, s) ==
    IF rd.c = EOF THEN [tok |-> Blank, w |-> errorp(rd.w)]
    ELSE IF rd.c = 34 THEN StringEnd(rd.w, buf_write(b, 0), enc)
    ELSE IF rd.c # 92 THEN read_string_loop(rd.w, buf_write(b, rd.c), enc, s)
    ELSE StringPeek1(peek(rd.w, s), b, enc, s)

read_string_loop(w, b, enc, s) == StringOn(readc(w, s), b, enc, s)

read_string(w, enc, s) == read_string_loop(w, <<>>, enc, s)

isdigit(c) == c >= 48 /\ c <= 57

isalpha(c) == (c >= 65 /\ c <= 90) \/ (c >= 97 /\ c <= 122)

\* strchr(str, c) != NULL: c is converted to char, and the terminating NUL of str is
\* part of the string that is searched
strchr(str, c) == (c % 256) \in (str \union {0})

RECURSIVE read_number_loop(_, _, _, _)

\* bool flonum = strchr("eEpP", last) && strchr("+-", c);
NumberOn(rd, b, last, s) ==
    IF ~isdigit(rd.c) /\ ~isalpha(rd.c) /\ rd.c # 46
       /\ ~(strchr({101, 69, 112, 80}, last) /\ strchr({43, 45}, rd.c))
    THEN make_number(unreadc(rd.w, rd.c), buf_write(b, 0))
    ELSE read_number_loop(rd.w, buf_write(b, rd.c), rd.c % 256, s)

read_number_loop(w, b, last, s) == NumberOn(readc(w, s), b, last, s)

read_number(w, c, s) == read_number_loop(w, buf_write(<<>>, c), c, s)

\* case '.': after next('.') succeeded
Dot3(n3) ==
    IF n3.b THEN make_keyword(n3.w, KELLIPSIS)
    ELSE make_ident(n3.w, <<46, 46, 0>>)

Dot2(n2, s) == IF n2.b THEN Dot3(next(n2.w, 46, s)) ELSE make_keyword(n2.w, 46)

Dot1(p, s) == IF isdigit(p.c) THEN read_number(p.w, 46, s) ELSE Dot2(next(p.w, 46, s), s)

RECURSIVE ReadIdentLoop(_, _, _)

\* write_utf8(b, read_escaped_char()); write_utf8 fails on a code point from 0x200000 on
IdentUcn(e, b, s) ==
    IF e.w.err # "" THEN [tok |-> Blank, w |-> e.w]
    ELSE IF e.c >= 2097152 THEN [tok |-> Blank, w |-> errorp(e.w)]
    ELSE ReadIdentLoop(e.w, write_utf8(b, e.c), s)

IdentBackslash2(p2, c, b, s) ==
    IF p2.c = 85 THEN IdentUcn(read_escaped_char(p2.w, s), b, s)
    ELSE IdentEnd(p2.w, c, b)

\* c == '\\' && (peek() == 'u' || peek() == 'U')
IdentBackslash(p1, c, b, s) ==
    IF p1.c = 117 THEN IdentUcn(read_escaped_char(p1.w, s), b, s)
    ELSE IdentBackslash2(peek(p1.w, s), c, b, s)

\* at EOF of the last stream the loop never ends: (char)EOF passes the test, is
\* appended, and every further readc returns EOF again
ReadIdentOn(r, b, s) ==
    IF r.c = EOF THEN [tok |-> Blank, w |-> [r.w EXCEPT !.err = "hang"]]
    ELSE IF IdentCont(r.c) THEN ReadIdentLoop(r.w, Append(b, r.c), s)
    ELSE IF r.c = 92 THEN IdentBackslash(peek(r.w, s), r.c, b, s)
    ELSE IdentEnd(r.w, r.c, b)

ReadIdentLoop(w, b, s) == ReadIdentOn(readc(w, s), b, s)

read_ident(w, c, s) == ReadIdentLoop(w, <<c>>, s)

\* (char)r
ToChar(r, s) == IF s /\ r % 256 >= 128 THEN (r % 256) - 256 ELSE r % 256

\* after the second readc of read_char
CharClose(rd, r, enc, s) ==
    IF rd.c # 39 THEN [tok |-> Blank, w |-> errorp(rd.w)]
    ELSE IF enc = ENC_NONE THEN make_char(rd.w, ToChar(r, s), enc)
    ELSE make_char(rd.w, r, enc)

CharEscaped(e, enc, s) ==
    IF e.w.err # "" THEN [tok |-> Blank, w |-> e.w]
    ELSE CharClose(readc(e.w, s), e.c, enc, s)

CharOn(rd, enc, s) ==
    IF rd.c = 92 THEN CharEscaped(read_escaped_char(rd.w, s), enc, s)
    ELSE CharClose(readc(rd.w, s), rd.c, enc, s)

read_char(w, enc, s) == CharOn(readc(w, s), enc, s)

\* case 'L': case 'U': after next('"') failed
Wide2(n2, c, enc, s) ==
    IF n2.b THEN read_char(n2.w, enc, s)
    ELSE read_ident(n2.w, c, s)

Wide1(n1, c, enc, s) ==
    IF n1.b THEN read_string(n1.w, enc, s)
    ELSE Wide2(next(n1.w, 39, s), c, enc, s)

\* mutant: the '8' is not pushed back
Utf4_drop8(n4, c, s) ==
    IF n4.b THEN read_string(n4.w, ENC_UTF8, s)
    ELSE read_ident(n4.w, c, s)

\* case 'u': after next('8') succeeded
Utf4(n4, c, s) ==
    IF n4.b THEN read_string(n4.w, ENC_UTF8, s)
    ELSE read_ident(unreadc(n4.w, 56), c, s)

Utf3(n3, c, s) ==
    IF n3.b THEN Utf4(next(n3.w, 34, s), c, s)
    ELSE read_ident(n3.w, c, s)

Utf2(n2, c, s) ==
    IF n2.b THEN read_char(n2.w, ENC_CHAR16, s)
    ELSE Utf3(next(n2.w, 56, s), c, s)

Utf1(n1, c, s) ==
    IF n1.b THEN read_string(n1.w, ENC_CHAR16, s)
    ELSE Utf2(next(n1.w, 39, s), c, s)

\* case '-':
Minus3(n3) == make_keyword(n3.w, IF n3.b THEN OP_A_SUB ELSE 45)

Minus2(n2, s) == IF n2.b THEN make_keyword(n2.w, OP_ARROW) ELSE Minus3(next(n2.w, 61, s))

Minus1(n1, s) == IF n1.b THEN make_keyword(n1.w, OP_DEC) ELSE Minus2(next(n1.w, 62, s), s)

\* case 'a' ... 't': case 'v' ... 'z': case 'A' ... 'K': case 'M' ... 'T':
\* case 'V' ... 'Z': case '_': case '$': case 0x80 ... 0xFD:
IdentStart(c) ==
    \/ (c >= 97 /\ c <= 116) \/ (c >= 118 /\ c <= 122)
    \/ (c >= 65 /\ c <= 75) \/ (c >= 77 /\ c <= 84) \/ (c >= 86 /\ c <= 90)
    \/ c = 95 \/ c = 36 \/ (c >= 128 /\ c <= 253)

\* case '(': case ')': case ',': case ';': case '[': case ']': case '{': case '}': case '?': case '~':
Punct(c) == c \in {40, 41, 44, 59, 91, 93, 123, 125, 63, 126}

\* case '<': the tests after next('<') failed
Less4(n4) == make_keyword(n4.w, IF n4.b THEN 123 ELSE 60)

Less3(n3, s) == IF n3.b THEN make_keyword(n3.w, 91) ELSE Less4(next(n3.w, 37, s))

Less2(n2, s) == IF n2.b THEN make_keyword(n2.w, OP_LE) ELSE Less3(next(n2.w, 58, s), s)

Less1(n1, s) ==
    IF n1.b THEN read_rep(n1.w, 61, OP_A_SAL, OP_SAL, s)
    ELSE Less2(next(n1.w, 61, s), s)

\* case '>':
Greater2(n2, s) ==
    IF n2.b THEN read_rep(n2.w, 61, OP_A_SAR, OP_SAR, s)
    ELSE make_keyword(n2.w, 62)

Greater1(n1, s) == IF n1.b THEN make_keyword(n1.w, OP_GE) ELSE Greater2(next(n1.w, 62, s), s)

PercentOn(h, s) ==
    IF h.ok THEN [tok |-> h.tok, w |-> h.w]
    ELSE read_rep(h.w, 61, OP_A_MOD, 37, s)

\* the switch of do_read_token on the character read after mark()
TokenOf(r, s) ==
    IF r.c = 10 THEN [tok |-> StaticToken(TNEWLINE), w |-> r.w]
    ELSE IF r.c = 58 THEN read_rep(r.w, 62, 93, 58, s)
    ELSE IF r.c = 35 THEN read_rep(r.w, 35, KHASHHASH, 35, s)
    ELSE IF r.c = 43 THEN read_rep2(r.w, 43, OP_INC, 61, OP_A_ADD, 43, s)
    ELSE IF r.c = 42 THEN read_rep(r.w, 61, OP_A_MUL, 42, s)
    ELSE IF r.c = 61 THEN read_rep(r.w, 61, OP_EQ, 61, s)
    ELSE IF r.c = 33 THEN read_rep(r.w, 61, OP_NE, 33, s)
    ELSE IF r.c = 38 THEN read_rep2(r.w, 38, OP_LOGAND, 61, OP_A_AND, 38, s)
    ELSE IF r.c = 124 THEN read_rep2(r.w, 124, OP_LOGOR, 61, OP_A_OR, 124, s)
    ELSE IF r.c = 94 THEN read_rep(r.w, 61, OP_A_XOR, 94, s)
    ELSE IF r.c = 34 THEN read_string(r.w, ENC_NONE, s)
    ELSE IF r.c = 47 THEN read_rep(r.w, 61, OP_A_DIV, 47, s)
    ELSE IF IdentStart(r.c) THEN read_ident(r.w, r.c, s)
    ELSE IF Punct(r.c) THEN make_keyword(r.w, r.c)
    ELSE IF r.c = 39 THEN read_char(r.w, ENC_NONE, s)
    ELSE IF r.c = 76 THEN Wide1(next(r.w, 34, s), r.c, ENC_WCHAR, s)
    ELSE IF r.c = 85 THEN Wide1(next(r.w, 34, s), r.c, ENC_CHAR32, s)
    ELSE IF r.c = 117 THEN Utf1(next(r.w, 34, s), r.c, s)
    ELSE IF r.c = 45 THEN Minus1(next(r.w, 45, s), s)
    ELSE IF isdigit(r.c) THEN read_number(r.w, r.c, s)
    ELSE IF r.c = 46 THEN Dot1(peek(r.w, s), s)
    ELSE IF r.c = 60 THEN Less1(next(r.w, 60, s), s)
    ELSE IF r.c = 62 THEN Greater1(next(r.w, 61, s), s)
    ELSE IF r.c = 37 THEN PercentOn(read_hash_digraph(r.w, s), s)
    ELSE IF r.c = EOF THEN [tok |-> StaticToken(TEOF), w |-> r.w]
    ELSE make_invalid(r.w, r.c)

DoReadTokenOn(sk, s) ==
    IF sk.b THEN [tok |-> StaticToken(TSPACE), w |-> sk.w]
    ELSE TokenOf(readc(mark(sk.w, s), s), s)

do_read_token(w, s) == DoReadTokenOn(skip_space(w, s), s)

\* mutant: the token goes under the tokens already in the buffer
unget_token_under(w, tok) ==
    IF tok.kind = TEOF THEN w
    ELSE [w EXCEPT !.buffers = SetTail(w.buffers, <<tok>> \o vec_tail(w.buffers))]

unget_token(w, tok) ==
    IF tok.kind = TEOF THEN w
    ELSE [w EXCEPT !.buffers = SetTail(w.buffers, Append(vec_tail(w.buffers), tok))]

\* tok->space = true, through the pointer do_read_token returned
SetSpace(d) ==
    IF d.tok.kind \in StaticKinds
    THEN [tok |-> d.tok, w |-> [d.w EXCEPT !.statics[d.tok.kind].space = TRUE]]
    ELSE [tok |-> [d.tok EXCEPT !.space = TRUE], w |-> d.w]

\* tok->bol = bol; return tok;
SetBol(d, bol) ==
    IF d.tok.kind \in StaticKinds
    THEN [tok |-> d.tok, w |-> [d.w EXCEPT !.statics[d.tok.kind].bol = bol], src |-> "stream"]
    ELSE [tok |-> [d.tok EXCEPT !.bol = bol], w |-> d.w, src |-> "stream"]

\* while (tok->kind == TSPACE) { tok = do_read_token(); tok->space = true; }
RECURSIVE LexLoop(_, _)

LexLoop(d, s) ==
    IF d.tok.kind = TSPACE THEN LexLoop(SetSpace(do_read_token(d.w, s)), s)
    ELSE d

\* src is a ghost: whether the token was read from the characters or taken from a buffer
lex(w, s) ==
    IF Len(vec_tail(w.buffers)) > 0
    THEN [tok |-> vec_tail(vec_tail(w.buffers)),
          w |-> [w EXCEPT !.buffers = SetTail(w.buffers, vec_pop(vec_tail(w.buffers)))],
          src |-> "buffer"]
    ELSE IF Len(w.buffers) > 1 THEN [tok |-> StaticToken(TEOF), w |-> w, src |-> "buffer"]
    ELSE SetBol(LexLoop(do_read_token(w, s), s), current_file(w).column = 1)

\* the token a Token pointer designates in world w
TokenAt(w, tok) ==
    IF tok.kind \in StaticKinds
    THEN [tok EXCEPT !.bol = w.statics[tok.kind].bol, !.space = w.statics[tok.kind].space]
    ELSE tok

is_ident(tok, p) == tok.kind = TIDENT /\ strcmp0(tok.sval, p)

StrElse == <<101, 108, 115, 101, 0>>

StrElif == <<101, 108, 105, 102, 0>>

StrEndif == <<101, 110, 100, 105, 102, 0>>

StrIf == <<105, 102, 0>>

StrIfdef == <<105, 102, 100, 101, 102, 0>>

StrIfndef == <<105, 102, 110, 100, 101, 102, 0>>

\* hash->bol = true; hash->column = column; unget_token(hash);
\* the ghost field follows the '#' the token stands for
UngetHash(h, column, at) ==
    unget_token(h.w, [h.tok EXCEPT !.bol = TRUE, !.column = column, !.at = at])

RECURSIVE SkipCondLoop(_, _, _)

SkipCondIdent(column, at, tok, w, nest, s) ==
    IF tok.kind # TIDENT THEN SkipCondLoop(w, nest, s)
    ELSE IF nest = 0 /\ (is_ident(tok, StrElse) \/ is_ident(tok, StrElif) \/ is_ident(tok, StrEndif))
    THEN UngetHash(make_keyword(unget_token(w, tok), 35), column, at)
    ELSE IF is_ident(tok, StrIf) \/ is_ident(tok, StrIfdef) \/ is_ident(tok, StrIfndef)
    THEN SkipCondLoop(skip_line(w, s), nest + 1, s)
    ELSE IF nest # 0 /\ is_ident(tok, StrEndif)
    THEN SkipCondLoop(skip_line(w, s), nest - 1, s)
    ELSE SkipCondLoop(skip_line(w, s), nest, s)

SkipCondTok(column, at, L, nest, s) == SkipCondIdent(column, at, L.tok, L.w, nest, s)

SkipCondChar(bol, r, nest, s) ==
    IF r.c = EOF THEN r.w
    ELSE IF r.c = 39 THEN SkipCondLoop(skip_char(r.w, s), nest, s)
    ELSE IF r.c = 34 THEN SkipCondLoop(skip_string(r.w, s), nest, s)
    ELSE IF r.c # 35 \/ ~bol THEN SkipCondLoop(r.w, nest, s)
    ELSE SkipCondTok(current_file(r.w).column - 1, CharsLeft(r.w, s) + 1, lex(r.w, s), nest, s)

SkipCondLoop(w, nest, s) ==
    SkipCondChar(current_file(w).column = 1, readc(skip_space(w, s).w, s), nest, s)

skip_cond_incl(w, s) == SkipCondLoop(w, 0, s)

(***************************************************************************)
(* The lexer under test: lex_init on one file, then any sequence of lex()  *)
(* calls with skip_cond_incl() called at the start of a line, as the       *)
(* preprocessor does after a false #if.                                    *)
(***************************************************************************)
\* the pieces the input files are made of:
\* "a", " ", "\n", backslash-newline, "#", "%", ":", "endif", "if"
LexFrags ==
    {<<97>>, <<32>>, <<10>>, <<92, 10>>, <<35>>, <<37>>, <<58>>,
     <<101, 110, 100, 105, 102>>, <<105, 102>>}

RECURSIVE Flatten(_)
Flatten(ss) == IF ss = <<>> THEN <<>> ELSE ss[1] \o Flatten(Tail(ss))

LexContents == {Flatten(ss) : ss \in UNION {[1..n -> LexFrags] : n \in 0..MaxFrags}}

\* errpos: the position of a fatal error that a call reports
LexWorld ==
    [files |-> files, stashed |-> stashed, err |-> err, buffers |-> buffers,
     pos |-> pos, statics |-> statics, rest |-> rest, errpos |-> [line |-> 0, column |-> 0]]

\* lex_init(filename): one empty token buffer, one file stream
lex_init(data) ==
    [files |-> <<make_file(1, data)>>, stashed |-> <<>>, err |-> "", buffers |-> <<<<>>>>,
     pos |-> [line |-> 0, column |-> 0],
     statics |-> [k \in StaticKinds |-> [bol |-> FALSE, space |-> FALSE]], rest |-> 0,
     errpos |-> [line |-> 0, column |-> 0]]

InitLexOn(data, w) ==
    /\ files = w.files
    /\ stashed = w.stashed
    /\ err = w.err
    /\ buffers = w.buffers
    /\ pos = w.pos
    /\ statics = w.statics
    /\ rest = w.rest
    /\ total = CharsLeft(w, charSigned)
    /\ made = <<data>>

InitLex ==
    /\ charSigned \in BOOLEAN
    /\ InitMapVars
    /\ IdleDataVars
    /\ \E data \in LexContents : InitLexOn(data, lex_init(data))
    /\ trail = <<>>
    /\ lastc = <<0>>
    /\ ended = {}
    /\ log = <<>>
    /\ lineTok = FALSE
    /\ call = [op |-> "none"]
    /\ ungot = <<>>
    /\ levels = <<>>
    /\ nops = 0

SetLexWorld(w) ==
    /\ files' = w.files
    /\ stashed' = w.stashed
    /\ err' = w.err
    /\ buffers' = w.buffers
    /\ pos' = w.pos
    /\ statics' = w.statics
    /\ rest' = w.rest

\* first: no token other than a newline was delivered before on this logical line
LexEntry(L) == [tok |-> TokenAt(L.w, L.tok), src |-> L.src, first |-> ~lineTok]

LexDone(L) ==
    /\ SetLexWorld(L.w)
    /\ log' = IF L.w.err = "" THEN Append(log, LexEntry(L)) ELSE log
    /\ lineTok' = (L.tok.kind # TNEWLINE)

\* the kind of the token lex() returned last, "" before the first
LastKind == IF log = <<>> THEN "" ELSE log[Len(log)].tok.kind

LexRunning ==
    /\ err = ""
    /\ Len(buffers) > 0
    /\ LastKind # TEOF

\* tok = lex()
Lex ==
    /\ LexRunning
    /\ LexDone(lex(LexWorld, charSigned))
    /\ UNCHANGED <<charSigned, mapVars, dataVars, trail, lastc, ended, made, total, callVars>>

SkipCondInclDone(w) ==
    /\ SetLexWorld(w)
    /\ lineTok' = (Len(vec_tail(w.buffers)) > 0)

\* skip_cond_incl(), called with an empty token buffer at the start of a line
SkipCondIncl ==
    /\ LexRunning
    /\ Len(vec_tail(buffers)) = 0
    /\ LastKind \in {"", TNEWLINE}
    /\ SkipCondInclDone(skip_cond_incl(LexWorld, charSigned))
    /\ UNCHANGED <<charSigned, mapVars, dataVars, trail, lastc, ended, made, total, log, callVars>>

NextLex == Lex \/ SkipCondIncl

SpecLex == InitLex /\ [][NextLex]_vars

\* the line and column of every character of data that readc delivers, in
\* order: a backslash-newline pair delivers nothing and starts a new line
\* (for data without carriage returns)
RECURSIVE CanonFrom(_, _, _, _)
CanonFrom(data, i, line, column) ==
    IF i > Len(data) THEN <<>>
    ELSE IF data[i] = 92 /\ i < Len(data) /\ data[i + 1] = 10
    THEN CanonFrom(data, i + 2, line + 1, 1)
    ELSE IF data[i] = 10
    THEN <<[line |-> line, column |-> column]>> \o CanonFrom(data, i + 1, line + 1, 1)
    ELSE <<[line |-> line, column |-> column]>> \o CanonFrom(data, i + 1, line, column + 1)

Canon(data) == CanonFrom(data, 1, 1, 1)

\* the tokens of the log that make_token created
Made(e) == e.tok.file # 0

TypeOKLex ==
    /\ err \in {"", "hang", "assert", "error"}
    /\ \A i \in 1..Len(log) :
          Made(log[i]) => (total - log[i].tok.at) + 1 \in 1..Len(Canon(made[log[i].tok.file]))

\* C8: a token that lex() read from the characters has bol set iff no token
\* other than a newline was delivered before it on the same logical line
C8_BolIffFirstOnLine ==
    \A i \in 1..Len(log) :
        log[i].src = "stream" => (log[i].tok.bol <=> log[i].first)

\* the position of the first character of the token of log entry e
FirstChar(e) == Canon(made[e.tok.file])[(total - e.tok.at) + 1]

\* C9: every token the lexer created carries the line and column of its
\* first character, both at least 1
C9_TokenPosition ==
    \A i \in 1..Len(log) :
        Made(log[i]) =>
            /\ log[i].tok.line >= 1
            /\ log[i].tok.column >= 1
            /\ log[i].tok.line = FirstChar(log[i]).line
            /\ log[i].tok.column = FirstChar(log[i]).column

\* C10: of two tokens of the same file that lex() returned, the later one
\* has the strictly greater count
C10_CountIncreasing ==
    \A i \in 1..Len(log) : \A j \in 1..Len(log) :
        (i < j /\ Made(log[i]) /\ Made(log[j]) /\ log[i].tok.file = log[j].tok.file)
            => log[i].tok.count < log[j].tok.count

(***************************************************************************)
(* The token buffers under test: lex_init on a short file, then lex(),     *)
(* unget_token(), token_buffer_stash() and token_buffer_unstash() in any   *)
(* order, on tokens that lex() has returned.                               *)
(***************************************************************************)
\* mutant: the list is poured onto the top buffer instead of becoming a new one
token_buffer_stash_onto(w, buf) ==
    [w EXCEPT !.buffers = SetTail(w.buffers, vec_tail(w.buffers) \o buf)]

token_buffer_stash(w, buf) == [w EXCEPT !.buffers = Append(w.buffers, buf)]

token_buffer_unstash(w) == [w EXCEPT !.buffers = vec_pop(w.buffers)]

\* the input files of this driver: up to MaxTokLen of 'a', ';', ' '
TokContents == UNION {[1..n -> {97, 59, 32}] : n \in 0..MaxTokLen}

InitTok ==
    /\ charSigned = FALSE
    /\ InitMapVars
    /\ IdleDataVars
    /\ \E data \in TokContents : InitLexOn(data, lex_init(data))
    /\ trail = <<>>
    /\ lastc = <<0>>
    /\ ended = {}
    /\ log = <<>>
    /\ lineTok = FALSE
    /\ call = [op |-> "none"]
    /\ ungot = <<>>
    /\ levels = <<>>
    /\ nops = 0

\* the Token pointer of a logged token
Ptr(tok) == IF tok.kind \in StaticKinds THEN StaticToken(tok.kind) ELSE tok

\* the token lists handed to token_buffer_stash: up to MaxList consecutive
\* tokens of those lex() has returned
TokLists ==
    {[k \in 1..(j - i) |-> Ptr(log[i + k].tok)] :
        <<i, j>> \in {x \in (0..Len(log)) \X (0..Len(log)) : x[1] <= x[2] /\ x[2] - x[1] <= MaxList}}

TokRunning ==
    /\ err = ""
    /\ Len(buffers) > 0
    /\ nops < MaxTokOps

GotAtTop(tok) ==
    IF levels = <<>> THEN levels
    ELSE [levels EXCEPT ![Len(levels)].got = Append(@, tok)]

TokLexDone(L) ==
    /\ LexDone(L)
    /\ call' = [op |-> "lex", tok |-> TokenAt(L.w, L.tok), want |-> ungot]
    /\ ungot' = IF ungot = <<>> THEN ungot ELSE vec_pop(ungot)
    /\ levels' = GotAtTop(TokenAt(L.w, L.tok))

\* tok = lex()
TokLex ==
    /\ TokRunning
    /\ TokLexDone(lex(LexWorld, charSigned))
    /\ nops' = nops + 1
    /\ UNCHANGED <<charSigned, mapVars, dataVars, trail, lastc, ended, made, total>>

ImpureAtTop ==
    IF levels = <<>> THEN levels
    ELSE [levels EXCEPT ![Len(levels)].pure = FALSE]

UngetDone(tok) ==
    /\ SetLexWorld(unget_token(LexWorld, tok))
    /\ call' = [op |-> "unget_token", tok |-> TokenAt(LexWorld, tok), before |-> LexWorld]
    /\ ungot' = IF tok.kind = TEOF THEN ungot ELSE Append(ungot, TokenAt(LexWorld, tok))
    /\ levels' = IF tok.kind = TEOF THEN levels ELSE ImpureAtTop

\* unget_token(tok), for a token lex() has returned
TokUnget ==
    /\ TokRunning
    /\ \E i \in 1..Len(log) : UngetDone(Ptr(log[i].tok))
    /\ nops' = nops + 1
    /\ UNCHANGED <<charSigned, mapVars, dataVars, trail, lastc, ended, made, total, log, lineTok>>

StashDone(list) ==
    /\ SetLexWorld(token_buffer_stash(LexWorld, list))
    /\ call' = [op |-> "token_buffer_stash"]
    /\ ungot' = <<>>
    /\ levels' = Append(levels, [list |-> [k \in 1..Len(list) |-> TokenAt(LexWorld, list[k])],
                                 got |-> <<>>, pure |-> TRUE, before |-> LexWorld])

\* token_buffer_stash(list)
TokStash ==
    /\ TokRunning
    /\ Len(levels) < MaxStash
    /\ \E list \in TokLists : StashDone(list)
    /\ nops' = nops + 1
    /\ UNCHANGED <<charSigned, mapVars, dataVars, trail, lastc, ended, made, total, log, lineTok>>

\* token_buffer_unstash()
TokUnstash ==
    /\ TokRunning
    /\ levels # <<>>
    /\ SetLexWorld(token_buffer_unstash(LexWorld))
    /\ call' = [op |-> "token_buffer_unstash", level |-> vec_tail(levels)]
    /\ ungot' = <<>>
    /\ levels' = vec_pop(levels)
    /\ nops' = nops + 1
    /\ UNCHANGED <<charSigned, mapVars, dataVars, trail, lastc, ended, made, total, log, lineTok>>

NextTok == TokLex \/ TokUnget \/ TokStash \/ TokUnstash

SpecTok == InitTok /\ [][NextTok]_vars

\* the tokens lex() returned from a stashed list with no unget_token in
\* between: the list from its top down, and EOF from then on
Drained(v) ==
    \A k \in 1..Len(v.got) :
        IF k <= Len(v.list) THEN v.got[k] = v.list[(Len(v.list) + 1) - k]
        ELSE v.got[k].kind = TEOF

\* C11: while a stashed list is in effect, lex() returns the tokens of the
\* list once each and then EOF, the character streams and the lower token
\* buffers stay as they were at the stash, and token_buffer_unstash leaves
\* the lexer exactly as it was before the stash
C11_StashIsolates ==
    /\ \A l \in 1..Len(levels) :
          /\ files = levels[l].before.files
          /\ SubSeq(buffers, 1, Len(levels[l].before.buffers)) = levels[l].before.buffers
          /\ levels[l].pure => Drained(levels[l])
    /\ call.op = "token_buffer_unstash" =>
          /\ call.level.pure => Drained(call.level)
          /\ LexWorld = call.level.before

\* a list was stashed before the file was read to its end, drained by lex()
\* up to an EOF, and unstashed
C11_Witness ==
    /\ call.op = "token_buffer_unstash"
    /\ call.level.pure
    /\ Len(call.level.list) >= 1
    /\ Len(call.level.got) > Len(call.level.list)
    /\ call.level.before.files[1].last # EOF

\* C12: lex() after unget_token(t) returns t as it was, tokens ungotten one
\* after another come back last first, and unget_token of an EOF token
\* changes nothing
C12_UngetThenLex ==
    /\ (call.op = "lex" /\ call.want # <<>>) => call.tok = vec_tail(call.want)
    /\ (call.op = "unget_token" /\ call.tok.kind = TEOF) => LexWorld = call.before

\* lex() returned the second of two tokens that were ungotten in a row
C12_Witness ==
    /\ call.op = "lex"
    /\ Len(call.want) = 1
    /\ Len(ungot) = 0
    /\ nops >= 4
    /\ Len(log) >= 2
    /\ log[Len(log)].tok = vec_tail(call.want)
    /\ log[Len(log) - 1].src = "buffer"

\* an EOF token was ungotten
C12_WitnessEof == call.op = "unget_token" /\ call.tok.kind = TEOF

(***************************************************************************)
(* Conditional skipping under test: lex_init on a file of directive lines  *)
(* and other pieces, then lex() and, at the start of a line,               *)
(* skip_cond_incl().                                                       *)
(***************************************************************************)
\* the pieces of the input files: "#if\n", "#endif\n", "#else", "endif",
\* "a", " ", "\n", backslash-newline, "#", "'"
SkipFrags ==
    {<<35, 105, 102, 10>>, <<35, 101, 110, 100, 105, 102, 10>>, <<35, 101, 108, 115, 101>>,
     <<101, 110, 100, 105, 102>>, <<97>>, <<32>>, <<10>>, <<92, 10>>, <<35>>, <<39>>}

SkipContents == {Flatten(ss) : ss \in UNION {[1..n -> SkipFrags] : n \in 0..MaxFrags}}

InitSkip ==
    /\ charSigned = FALSE
    /\ InitMapVars
    /\ IdleDataVars
    /\ \E data \in SkipContents : InitLexOn(data, lex_init(data))
    /\ trail = <<>>
    /\ lastc = <<0>>
    /\ ended = {}
    /\ log = <<>>
    /\ lineTok = FALSE
    /\ call = [op |-> "none"]
    /\ ungot = <<>>
    /\ levels = <<>>
    /\ nops = 0

\* the characters readc still delivers
RECURSIVE CharSeq(_, _)

CharSeqOn(r, s) == IF r.c = EOF THEN <<>> ELSE <<r.c>> \o CharSeq(r.w, s)

CharSeq(w, s) == CharSeqOn(readc(w, s), s)

\* the first index from i on that holds no white space
RECURSIVE RefWs(_, _)
RefWs(cs, i) == IF i <= Len(cs) /\ iswhitespace(cs[i]) THEN RefWs(cs, i + 1) ELSE i

\* the first index from i on that holds no identifier character
RECURSIVE RefIdentEnd(_, _)
RefIdentEnd(cs, i) ==
    IF i <= Len(cs) /\ (isalnum(cs[i]) \/ cs[i] = 95 \/ cs[i] = 36) THEN RefIdentEnd(cs, i + 1)
    ELSE i

\* the index after the end of the line that holds index i
RECURSIVE RefNextLine(_, _)
RefNextLine(cs, i) ==
    IF i > Len(cs) THEN i
    ELSE IF cs[i] = 10 THEN i + 1
    ELSE RefNextLine(cs, i + 1)

RECURSIVE RefSkip(_, _, _)

\* the line at i is a directive line with the name cs[k..e-1]
RefDirective(cs, i, nest, k, e) ==
    IF nest = 0 /\ SubSeq(cs, k, e - 1) \in {<<101, 108, 115, 101>>, <<101, 108, 105, 102>>,
                                             <<101, 110, 100, 105, 102>>}
    THEN [found |-> TRUE, name |-> Append(SubSeq(cs, k, e - 1), 0), rest |-> SubSeq(cs, e, Len(cs))]
    ELSE IF SubSeq(cs, k, e - 1) \in {<<105, 102>>, <<105, 102, 100, 101, 102>>,
                                      <<105, 102, 110, 100, 101, 102>>}
    THEN RefSkip(cs, RefNextLine(cs, i), nest + 1)
    ELSE IF nest > 0 /\ SubSeq(cs, k, e - 1) = <<101, 110, 100, 105, 102>>
    THEN RefSkip(cs, RefNextLine(cs, i), nest - 1)
    ELSE RefSkip(cs, RefNextLine(cs, i), nest)

RefHash(cs, i, nest, k) == RefDirective(cs, i, nest, k, RefIdentEnd(cs, k))

RefLine(cs, i, nest, j) ==
    IF j <= Len(cs) /\ cs[j] = 35 THEN RefHash(cs, i, nest, RefWs(cs, j + 1))
    ELSE RefSkip(cs, RefNextLine(cs, i), nest)

\* what skipping the lines of cs from line start i at depth nest must find:
\* the first line "# else", "# elif" or "# endif" at depth 0, the depth
\* rising at "# if", "# ifdef", "# ifndef" and falling at "# endif"
RefSkip(cs, i, nest) ==
    IF i > Len(cs) THEN [found |-> FALSE, name |-> <<>>, rest |-> <<>>]
    ELSE RefLine(cs, i, nest, RefWs(cs, i))

SkipRegionDone(w) ==
    /\ SetLexWorld(w)
    /\ lineTok' = (Len(vec_tail(w.buffers)) > 0)
    /\ call' = [op |-> "skip_cond_incl", nlog |-> Len(log),
                ref |-> RefSkip(CharSeq(LexWorld, charSigned), 1, 0)]

\* skip_cond_incl(), called with an empty token buffer at the start of a line
SkipRegion ==
    /\ LexRunning
    /\ Len(vec_tail(buffers)) = 0
    /\ LastKind \in {"", TNEWLINE}
    /\ SkipRegionDone(skip_cond_incl(LexWorld, charSigned))
    /\ UNCHANGED <<charSigned, mapVars, dataVars, trail, lastc, ended, made, total, log, ungot, levels, nops>>

NextSkip == Lex \/ SkipRegion

SpecSkip == InitSkip /\ [][NextSkip]_vars

\* C15: skip_cond_incl stops at the first #else, #elif or #endif line at
\* depth 0: it leaves the input that follows the directive name, the next
\* two lex() calls return '#' with bol set and the name, and when there is
\* no such line it leaves nothing
C15_SkipToDirective ==
    (call.op = "skip_cond_incl" /\ err = "") =>
        /\ Len(log) = call.nlog =>
              /\ CharSeq(LexWorld, charSigned) = call.ref.rest
              /\ Len(vec_tail(buffers)) = (IF call.ref.found THEN 2 ELSE 0)
        /\ (call.ref.found /\ Len(log) > call.nlog) =>
              /\ log[call.nlog + 1].tok.kind = TKEYWORD
              /\ log[call.nlog + 1].tok.id = 35
              /\ log[call.nlog + 1].tok.bol
        /\ (call.ref.found /\ Len(log) > call.nlog + 1) =>
              /\ log[call.nlog + 2].tok.kind = TIDENT
              /\ log[call.nlog + 2].tok.sval = call.ref.name

(***************************************************************************)
(* lex_string under test: lex_init on the file "a;", then lex() and        *)
(* lex_string(s) for short strings s                                       *)
(***************************************************************************)
LexStringPeek(tok, p) ==
    IF p.c # EOF THEN [tok |-> tok, w |-> errorp(p.w)]
    ELSE [tok |-> tok, w |-> stream_unstash(p.w)]

LexStringNext(tok, n, s) == LexStringPeek(tok, peek(n.w, s))

LexStringOn(d, s) == IF d.w.err # "" THEN d ELSE LexStringNext(d.tok, next(d.w, 10, s), s)

\* lex_string(str); id names the string stream
lex_string(w, str, id, s) ==
    LexStringOn(do_read_token(stream_stash(w, make_file_string(id, str)), s), s)

\* 'a', ' ', '+', '=', ';'
StringBytes == {97, 32, 43, 61, 59}

StringContents == UNION {[1..n -> StringBytes] : n \in 0..MaxLen}

StringBase == <<97, 59>>

InitString ==
    /\ charSigned = FALSE
    /\ InitMapVars
    /\ IdleDataVars
    /\ InitLexOn(StringBase, lex_init(StringBase))
    /\ trail = <<>>
    /\ lastc = <<0>>
    /\ ended = {}
    /\ log = <<>>
    /\ lineTok = FALSE
    /\ call = [op |-> "none"]
    /\ ungot = <<>>
    /\ levels = <<>>
    /\ nops = 0

LexStringDone(L, str) ==
    /\ SetLexWorld(L.w)
    /\ call' = [op |-> "lex_string", s |-> str, tok |-> L.tok, files |-> files,
                stashed |-> stashed, nlog |-> Len(log)]

\* tok = lex_string(str)
LexString ==
    /\ LexRunning
    /\ \E str \in StringContents : LexStringDone(lex_string(LexWorld, str, 2, charSigned), str)
    /\ UNCHANGED <<charSigned, mapVars, dataVars, trail, lastc, ended, made, total, log, lineTok,
                   ungot, levels, nops>>

NextString == Lex \/ LexString

SpecString == InitString /\ [][NextString]_vars

\* the length of the token a string over StringBytes starts with: an
\* identifier, "++", "+=", "==", or one punctuator; 0 when it starts with none
RefTokLen(str) ==
    IF str = <<>> \/ iswhitespace(str[1]) THEN 0
    ELSE IF str[1] = 97 THEN RefIdentEnd(str, 1) - 1
    ELSE IF Len(str) >= 2 /\ <<str[1], str[2]>> \in {<<43, 43>>, <<43, 61>>, <<61, 61>>} THEN 2
    ELSE 1

\* str is one token followed by white space only
OneToken(str) ==
    /\ RefTokLen(str) > 0
    /\ \A i \in RefTokLen(str) + 1..Len(str) : iswhitespace(str[i])

\* non-white-space input remains after the first token of str
TrailingInput(str) ==
    /\ RefTokLen(str) > 0
    /\ \E i \in RefTokLen(str) + 1..Len(str) : ~iswhitespace(str[i])

\* the spelling of a token of the strings over StringBytes
Spelling(tok) ==
    IF tok.kind = TIDENT THEN SubSeq(tok.sval, 1, Len(tok.sval) - 1)
    ELSE IF tok.kind # TKEYWORD THEN <<>>
    ELSE IF tok.id = OP_INC THEN <<43, 43>>
    ELSE IF tok.id = OP_A_ADD THEN <<43, 61>>
    ELSE IF tok.id = OP_EQ THEN <<61, 61>>
    ELSE <<tok.id>>

\* C16: lex_string(s) returns the token of s when s is one token followed
\* by white space only and then leaves the stream stack as it was, and
\* fails with a fatal error when other input follows the token
C16_LexString ==
    (call.op = "lex_string" /\ call.nlog = Len(log)) =>
        /\ OneToken(call.s) =>
              /\ err = ""
              /\ Spelling(call.tok) = SubSeq(call.s, 1, RefTokLen(call.s))
              /\ files = call.files
              /\ stashed = call.stashed
        /\ TrailingInput(call.s) => err = "error"

\* the same for strings that are one token with nothing behind it
C16_LexStringBare ==
    (call.op = "lex_string" /\ RefTokLen(call.s) = Len(call.s)) => C16_LexString

(***************************************************************************)
(* read_header_file_name under test: lex_init on a file of quotes, angle   *)
(* brackets and other bytes, then read_header_file_name, unget_token,      *)
(* token_buffer_stash of an empty list and token_buffer_unstash            *)
(***************************************************************************)
\* mutant: only the active list is looked at
buffer_empty_top(w) == Len(vec_tail(w.buffers)) = 0

buffer_empty(w) == Len(w.buffers) = 1 /\ Len(w.buffers[1]) = 0

\* the NULL result
NoName(w) == [name |-> <<>>, std |-> "unset", w |-> w]

RECURSIVE HeaderLoop(_, _, _, _, _)

\* the character read in the loop body
HeaderChar(r, close, b, std, s) ==
    IF r.c = EOF \/ r.c = 10 THEN [name |-> b, std |-> std, w |-> errorp(r.w)]
    ELSE HeaderLoop(r.w, close, Append(b, r.c), std, s)

HeaderNext(n, close, b, std, s) ==
    IF n.w.err # "" THEN [name |-> b, std |-> std, w |-> n.w]
    ELSE IF ~n.b THEN HeaderChar(readc(n.w, s), close, b, std, s)
    ELSE IF Len(b) = 0 THEN [name |-> b, std |-> std, w |-> errorp(n.w)]
    ELSE [name |-> Append(b, 0), std |-> std, w |-> n.w]

\* while (!next(close)) ...; the checks and the return behind the loop
HeaderLoop(w, close, b, std, s) == HeaderNext(next(w, close, s), close, b, std, s)

HeaderAngle(n, s) ==
    IF n.b THEN HeaderLoop(n.w, 62, <<>>, TRUE, s)
    ELSE NoName(n.w)

HeaderQuote(n, s) ==
    IF n.b THEN HeaderLoop(n.w, 34, <<>>, FALSE, s)
    ELSE HeaderAngle(next(n.w, 60, s), s)

HeaderOpen(sk, s) == HeaderQuote(next(sk.w, 34, s), s)

\* name = read_header_file_name(&std): name is <<>> for NULL
read_header_file_name(w, s) ==
    IF ~buffer_empty(w) THEN NoName(w)
    ELSE HeaderOpen(skip_space(w, s), s)

\* the pieces of the input files: '"', '<', '>', 'a', '\', newline, ' '
HeaderFrags == {<<34>>, <<60>>, <<62>>, <<97>>, <<92>>, <<10>>, <<32>>}

HeaderContents == {Flatten(ss) : ss \in UNION {[1..n -> HeaderFrags] : n \in 0..MaxFrags}}

InitHeader ==
    /\ charSigned = FALSE
    /\ InitMapVars
    /\ IdleDataVars
    /\ \E data \in HeaderContents : InitLexOn(data, lex_init(data))
    /\ trail = <<>>
    /\ lastc = <<0>>
    /\ ended = {}
    /\ log = <<>>
    /\ lineTok = FALSE
    /\ call = [op |-> "none"]
    /\ ungot = <<>>
    /\ levels = <<>>
    /\ nops = 0

ReadHeaderDone(h) ==
    /\ SetLexWorld(h.w)
    /\ call' = [op |-> "read_header_file_name", name |-> h.name, std |-> h.std,
                cs |-> CharSeq(LexWorld, charSigned), single |-> (Len(buffers) = 1),
                pending |-> Len(vec_tail(buffers))]

\* name = read_header_file_name(&std)
ReadHeader ==
    /\ err = ""
    /\ Len(buffers) > 0
    /\ ReadHeaderDone(read_header_file_name(LexWorld, charSigned))
    /\ UNCHANGED <<charSigned, mapVars, dataVars, trail, lastc, ended, made, total, log, lineTok,
                   ungot, levels, nops>>

\* unget_token(tok) of an identifier token, onto an empty active list
HeaderUnget ==
    /\ err = ""
    /\ Len(buffers) > 0
    /\ Len(vec_tail(buffers)) = 0
    /\ buffers' = unget_token(LexWorld, [Blank EXCEPT !.kind = TIDENT, !.sval = <<97, 0>>]).buffers
    /\ call' = [op |-> "unget_token"]
    /\ UNCHANGED <<charSigned, mapVars, dataVars, streamVars, pos, statics, rest, total, log, lineTok,
                   ungot, levels, nops>>

\* token_buffer_stash(buf) of an empty list
HeaderStash ==
    /\ err = ""
    /\ Len(buffers) = 1
    /\ buffers' = token_buffer_stash(LexWorld, <<>>).buffers
    /\ call' = [op |-> "token_buffer_stash"]
    /\ UNCHANGED <<charSigned, mapVars, dataVars, streamVars, pos, statics, rest, total, log, lineTok,
                   ungot, levels, nops>>

\* token_buffer_unstash()
HeaderUnstash ==
    /\ err = ""
    /\ Len(buffers) = 2
    /\ buffers' = token_buffer_unstash(LexWorld).buffers
    /\ call' = [op |-> "token_buffer_unstash"]
    /\ UNCHANGED <<charSigned, mapVars, dataVars, streamVars, pos, statics, rest, total, log, lineTok,
                   ungot, levels, nops>>

NextHeader == ReadHeader \/ HeaderUnget \/ HeaderStash \/ HeaderUnstash

SpecHeader == InitHeader /\ [][NextHeader]_vars

\* the first index from j on that holds the closing delimiter or a newline
RECURSIVE RefClose(_, _, _)
RefClose(cs, j, close) ==
    IF j <= Len(cs) /\ cs[j] # close /\ cs[j] # 10 THEN RefClose(cs, j + 1, close) ELSE j

\* the header name that opens at cs[i] closes at cs[j]
RefNameAt(cs, i, j) ==
    IF j <= Len(cs) /\ cs[j] # 10 /\ j > i + 1
    THEN /\ err = ""
         /\ call.name = Append(SubSeq(cs, i + 1, j - 1), 0)
         /\ call.std = (cs[i] = 60)
         /\ CharSeq(LexWorld, charSigned) = SubSeq(cs, j + 1, Len(cs))
    ELSE err = "error"

\* what the call must have done on the characters cs, the first character
\* behind the white space being cs[i]
RefHeader(cs, i) ==
    (i <= Len(cs) /\ cs[i] \in {34, 60}) =>
        RefNameAt(cs, i, RefClose(cs, i + 1, IF cs[i] = 34 THEN 34 ELSE 62))

\* the call returned NULL and consumed nothing
RefNoName ==
    /\ err = ""
    /\ call.name = <<>>
    /\ CharSeq(LexWorld, charSigned) = call.cs

\* C17 as stated: read_header_file_name returns no name and consumes no
\* input when the active token list holds a token; otherwise '"' opens a
\* name with std = false and '<' one with std = true, the name is the bytes
\* up to the closing delimiter, and a newline or EOF before it, or an empty
\* name, is a fatal error
C17_HeaderNameActiveList ==
    call.op = "read_header_file_name" =>
        IF call.pending > 0 THEN RefNoName ELSE RefHeader(call.cs, RefWs(call.cs, 1))

\* C17 amended: the same, with no name and no input consumed whenever the
\* token buffer stack is not one empty list
C17_HeaderName ==
    call.op = "read_header_file_name" =>
        IF call.pending > 0 \/ ~call.single THEN RefNoName
        ELSE RefHeader(call.cs, RefWs(call.cs, 1))

\* a name in angle brackets that holds a backslash was returned
C17_Witness ==
    /\ call.op = "read_header_file_name"
    /\ err = ""
    /\ Len(call.name) = 3
    /\ call.name[1] = 92
    /\ call.std = TRUE

\* no name was returned under a stashed empty list although a name follows
C17_WitnessStashed ==
    /\ call.op = "read_header_file_name"
    /\ ~call.single
    /\ call.pending = 0
    /\ call.name = <<>>
    /\ Len(call.cs) >= 3
    /\ call.cs[1] = 34
    /\ call.cs[3] = 34

\* the call failed on a name that runs into the end of the line
C17_WitnessError ==
    /\ call.op = "read_header_file_name"
    /\ err = "error"
    /\ Len(call.cs) >= 3
    /\ call.cs[1] = 60
    /\ call.cs[3] = 10

\* C18: every call to lex() terminates, with a token or with a fatal error
\* ("hang" marks a call whose loop never ends)
C18_LexTerminates == err # "hang"

(***************************************************************************)
(* String literals under test: lex_init on a file of quotes, backslashes,  *)
(* letters and digits, then lex()                                          *)
(***************************************************************************)
\* the pieces of the input files: '"', 'a', '\', 'n', "u00e9", "x41", '0'
LiteralFrags ==
    {<<34>>, <<97>>, <<92>>, <<110>>, <<117, 48, 48, 101, 57>>, <<120, 52, 49>>, <<48>>}

LiteralContents == {Flatten(ss) : ss \in UNION {[1..n -> LiteralFrags] : n \in 0..MaxFrags}}

InitLiteral ==
    /\ charSigned = FALSE
    /\ InitMapVars
    /\ IdleDataVars
    /\ \E data \in LiteralContents : InitLexOn(data, lex_init(data))
    /\ trail = <<>>
    /\ lastc = <<0>>
    /\ ended = {}
    /\ log = <<>>
    /\ lineTok = FALSE
    /\ call = [op |-> "none"]
    /\ ungot = <<>>
    /\ levels = <<>>
    /\ nops = 0

SpecLiteral == InitLiteral /\ [][Lex]_vars

\* the end of the run of hexadecimal digits that starts at cs[i]
RECURSIVE RefHexEnd(_, _)
RefHexEnd(cs, i) == IF i <= Len(cs) /\ isxdigit(cs[i]) THEN RefHexEnd(cs, i + 1) ELSE i

\* the end of the run of at most n octal digits that starts at cs[i]
RECURSIVE RefOctEnd(_, _, _)
RefOctEnd(cs, i, n) ==
    IF n > 0 /\ i <= Len(cs) /\ IsOct(cs[i]) THEN RefOctEnd(cs, i + 1, n - 1) ELSE i

\* the number the digits ds spell in the given base
RECURSIVE RefNumber(_, _)
RefNumber(ds, base) ==
    IF ds = <<>> THEN 0
    ELSE RefNumber(SubSeq(ds, 1, Len(ds) - 1), base) * base + HexVal(ds[Len(ds)])

\* UTF-8 of a code point below 0x10000
RefUtf8(cp) ==
    IF cp < 128 THEN <<cp>>
    ELSE IF cp < 2048 THEN <<192 + (cp \div 64), 128 + (cp % 64)>>
    ELSE <<224 + (cp \div 4096), 128 + ((cp \div 64) % 64), 128 + (cp % 64)>>

RECURSIVE RefDecode(_, _)

RefNumeric(cs, from, to, base) ==
    <<RefNumber(SubSeq(cs, from, to - 1), base) % 256>> \o RefDecode(cs, to)

\* the bytes of the escape sequence whose backslash is cs[i - 1], and of what follows it
RefEscape(cs, i) ==
    IF cs[i] = 110 THEN <<10>> \o RefDecode(cs, i + 1)
    ELSE IF cs[i] = 97 THEN <<7>> \o RefDecode(cs, i + 1)
    ELSE IF cs[i] = 120 THEN RefNumeric(cs, i + 1, RefHexEnd(cs, i + 1), 16)
    ELSE IF cs[i] = 117
    THEN RefUtf8(RefNumber(SubSeq(cs, i + 1, i + 4), 16)) \o RefDecode(cs, i + 5)
    ELSE IF IsOct(cs[i]) THEN RefNumeric(cs, i, RefOctEnd(cs, i, 3), 8)
    ELSE <<cs[i]>> \o RefDecode(cs, i + 1)

\* the decoded bytes of the string literal body that starts at cs[i]
RefDecode(cs, i) ==
    IF i > Len(cs) \/ cs[i] = 34 THEN <<>>
    ELSE IF cs[i] = 92 /\ i < Len(cs) THEN RefEscape(cs, i + 1)
    ELSE <<cs[i]>> \o RefDecode(cs, i + 1)

\* the decoded bytes of the literal that the token of log entry e was read from
Decoded(e) == RefDecode(made[e.tok.file], (total - e.tok.at) + 2)

\* C19: a STRING token's payload is the decoded bytes of its literal and a
\* NUL, and its length is the number of decoded bytes without the NUL
C19_StringPayload ==
    \A i \in 1..Len(log) :
        log[i].tok.kind = TSTRING =>
            /\ log[i].tok.sval = Append(Decoded(log[i]), 0)
            /\ log[i].tok.slen = Len(Decoded(log[i]))

\* the payload alone
C19_PayloadDecoded ==
    \A i \in 1..Len(log) :
        log[i].tok.kind = TSTRING => log[i].tok.sval = Append(Decoded(log[i]), 0)

\* the length the code stores: the decoded bytes and the NUL
C19_LengthCountsNul ==
    \A i \in 1..Len(log) :
        log[i].tok.kind = TSTRING => log[i].tok.slen = Len(Decoded(log[i])) + 1

\* the literal "\u00e9" was lexed: payload C3 A9 00, stored length 3
C19_Example ==
    \E i \in 1..Len(log) :
        /\ log[i].tok.kind = TSTRING
        /\ log[i].tok.sval = <<195, 169, 0>>
        /\ log[i].tok.slen = 3

(***************************************************************************)
(* Digraphs under test: lex_init on a file of '<', '>', '%', ':', 'a' and   *)
(* backslash-newline, then lex()                                           *)
(***************************************************************************)
DigraphFrags == {<<60>>, <<62>>, <<37>>, <<58>>, <<97>>, <<92, 10>>}

DigraphContents == {Flatten(ss) : ss \in UNION {[1..n -> DigraphFrags] : n \in 0..MaxFrags}}

InitDigraph ==
    /\ charSigned = FALSE
    /\ InitMapVars
    /\ IdleDataVars
    /\ \E data \in DigraphContents : InitLexOn(data, lex_init(data))
    /\ trail = <<>>
    /\ lastc = <<0>>
    /\ ended = {}
    /\ log = <<>>
    /\ lineTok = FALSE
    /\ call = [op |-> "none"]
    /\ ungot = <<>>
    /\ levels = <<>>
    /\ nops = 0

SpecDigraph == InitDigraph /\ [][Lex]_vars

\* what a token is, without where it was found
Strip(tok) == [kind |-> tok.kind, id |-> tok.id, sval |-> tok.sval]

\* the tokens lex() returns before EOF
RECURSIVE LexAll(_, _)

LexAllOn(L, s) ==
    IF L.w.err # "" \/ L.tok.kind = TEOF THEN <<>>
    ELSE <<Strip(L.tok)>> \o LexAll(L.w, s)

LexAll(w, s) == LexAllOn(lex(w, s), s)

\* the characters of the file that log entry e was read from, as readc delivers them
Text(e) == CharSeq(lex_init(made[e.tok.file]), charSigned)

\* the text of log entry e's file from the first character of its token on
TextFrom(e) == SubSeq(Text(e), (total - e.tok.at) + 1, Len(Text(e)))

\* cs starts with the characters p
StartsWith(cs, p) == Len(cs) >= Len(p) /\ SubSeq(cs, 1, Len(p)) = p

IsKeyword(e, id) == e.tok.kind = TKEYWORD /\ e.tok.id = id

DigraphToken(e, cs) ==
    /\ StartsWith(cs, <<60, 58>>) => IsKeyword(e, 91)
    /\ StartsWith(cs, <<58, 62>>) => IsKeyword(e, 93)
    /\ StartsWith(cs, <<60, 37>>) => IsKeyword(e, 123)
    /\ StartsWith(cs, <<37, 62>>) => IsKeyword(e, 125)
    /\ StartsWith(cs, <<37, 58, 37, 58>>) => IsKeyword(e, KHASHHASH)
    /\ (StartsWith(cs, <<37, 58>>) /\ ~StartsWith(cs, <<37, 58, 37, 58>>)) => IsKeyword(e, 35)

\* the index in data of the k-th character that readc delivers from index i on
\* (data holds no carriage return)
RECURSIVE RawIndex(_, _, _)
RawIndex(data, i, k) ==
    IF data[i] = 92 /\ i < Len(data) /\ data[i + 1] = 10 THEN RawIndex(data, i + 2, k)
    ELSE IF k = 1 THEN i
    ELSE RawIndex(data, i + 1, k - 1)

\* the bytes of log entry e's file from the k-th character of its token on
BytesFrom(e, k) ==
    SubSeq(made[e.tok.file], RawIndex(made[e.tok.file], 1, (total - e.tok.at) + k),
           Len(made[e.tok.file]))

\* the tokens of the log behind entry i
LogAfter(i) == [j \in 1..(Len(log) - i) |-> Strip(log[i + j].tok)]

\* C20: a token whose text starts with <: :> <% %> %: or %:%: is the
\* keyword [ ] { } # or ##, and once the file is lexed to EOF, the tokens
\* behind a # read from %:% that no ':' follows are the tokens of '%' and
\* the rest of the input lexed on their own
C20_Digraphs ==
    \A i \in 1..Len(log) :
        Made(log[i]) =>
            /\ DigraphToken(log[i], TextFrom(log[i]))
            /\ (/\ LastKind = TEOF
                /\ StartsWith(TextFrom(log[i]), <<37, 58, 37>>)
                /\ ~StartsWith(TextFrom(log[i]), <<37, 58, 37, 58>>)) =>
                  LogAfter(i)
                      = Append(LexAll(lex_init(BytesFrom(log[i], 3)), charSigned),
                               Strip(StaticToken(TEOF)))

\* the file "%:%>" was lexed to EOF as '#' and '}'
C20_Witness ==
    /\ made[1] = <<37, 58, 37, 62>>
    /\ LastKind = TEOF
    /\ Len(log) = 4
    /\ IsKeyword(log[1], 35)
    /\ IsKeyword(log[2], 125)

\* the file "<:%:" was lexed to EOF as '[' and '#'
C20_WitnessBracket ==
    /\ made[1] = <<60, 58, 37, 58>>
    /\ LastKind = TEOF
    /\ IsKeyword(log[1], 91)
    /\ IsKeyword(log[2], 35)

(***************************************************************************)
(* pp-numbers under test: lex_init on a file of '1', '.', 'e', '+', ';'    *)
(* and the byte 0, then lex()                                              *)
(***************************************************************************)
NumberFrags == {<<49>>, <<46>>, <<101>>, <<43>>, <<59>>, <<0>>}

NumberContents == {Flatten(ss) : ss \in UNION {[1..n -> NumberFrags] : n \in 0..MaxFrags}}

InitNumber ==
    /\ charSigned = FALSE
    /\ InitMapVars
    /\ IdleDataVars
    /\ \E data \in NumberContents : InitLexOn(data, lex_init(data))
    /\ trail = <<>>
    /\ lastc = <<0>>
    /\ ended = {}
    /\ log = <<>>
    /\ lineTok = FALSE
    /\ call = [op |-> "none"]
    /\ ungot = <<>>
    /\ levels = <<>>
    /\ nops = 0

SpecNumber == InitNumber /\ [][Lex]_vars

\* the first index from i on that does not continue a pp-number: a digit, a
\* letter, '.', or a sign behind e, E, p or P
RECURSIVE RefNumberEnd(_, _)
RefNumberEnd(cs, i) ==
    IF i > Len(cs) THEN i
    ELSE IF isdigit(cs[i]) \/ isalpha(cs[i]) \/ cs[i] = 46 THEN RefNumberEnd(cs, i + 1)
    ELSE IF cs[i] \in {43, 45} /\ cs[i - 1] \in {101, 69, 112, 80} THEN RefNumberEnd(cs, i + 1)
    ELSE i

\* cs starts a pp-number
RefNumberStart(cs) ==
    /\ Len(cs) >= 1
    /\ \/ isdigit(cs[1])
       \/ cs[1] = 46 /\ Len(cs) >= 2 /\ isdigit(cs[2])

\* the characters readc still delivers when log entry i has just been returned, -1 otherwise
LeftAfter(i) == IF i = Len(log) /\ err = "" THEN CharsLeft(LexWorld, charSigned) ELSE -1

RefNumberToken(e, cs, left) ==
    /\ e.tok.kind = TNUMBER <=> RefNumberStart(cs)
    /\ e.tok.kind = TNUMBER =>
          /\ e.tok.sval = Append(SubSeq(cs, 1, RefNumberEnd(cs, 2) - 1), 0)
          /\ left >= 0 => left = Len(cs) - (RefNumberEnd(cs, 2) - 1)

\* C21: a token is a NUMBER exactly when its text starts with a digit or
\* with '.' and a digit; its payload is the longest run of digits, letters
\* and '.', with a sign only behind e, E, p or P, and the character behind
\* the run is still to be read
C21_PpNumber ==
    \A i \in 1..Len(log) :
        Made(log[i]) => RefNumberToken(log[i], TextFrom(log[i]), LeftAfter(i))

\* the same for files without the byte 0
C21_PpNumberNoNul ==
    (\A k \in 1..Len(made[1]) : made[1][k] # 0) => C21_PpNumber

\* "1e+1" was lexed as one NUMBER
C21_Example ==
    /\ Len(log) >= 1
    /\ log[1].tok.kind = TNUMBER
    /\ log[1].tok.sval = <<49, 101, 43, 49, 0>>

(***************************************************************************)
(* Encoding prefixes under test: lex_init on a file of 'L', 'U', 'u', '8',  *)
(* double quotes, apostrophes and 'a', then lex()                          *)
(***************************************************************************)
PrefixFrags == {<<76>>, <<85>>, <<117>>, <<56>>, <<34>>, <<39>>, <<97>>}

PrefixContents == {Flatten(ss) : ss \in UNION {[1..n -> PrefixFrags] : n \in 0..MaxFrags}}

InitPrefix ==
    /\ charSigned = FALSE
    /\ InitMapVars
    /\ IdleDataVars
    /\ \E data \in PrefixContents : InitLexOn(data, lex_init(data))
    /\ trail = <<>>
    /\ lastc = <<0>>
    /\ ended = {}
    /\ log = <<>>
    /\ lineTok = FALSE
    /\ call = [op |-> "none"]
    /\ ungot = <<>>
    /\ levels = <<>>
    /\ nops = 0

SpecPrefix == InitPrefix /\ [][Lex]_vars

IsLiteral(e, kind, enc) == e.tok.kind = kind /\ e.tok.enc = enc

\* the token is the identifier that starts the text cs, and what follows it is still to be read
IsIdentOf(e, cs, left) ==
    /\ e.tok.kind = TIDENT
    /\ e.tok.sval = Append(SubSeq(cs, 1, RefIdentEnd(cs, 1) - 1), 0)
    /\ left >= 0 => left = Len(cs) - (RefIdentEnd(cs, 1) - 1)

\* the prefix p with the encoding enc
RefPrefix(e, cs, p, enc) ==
    /\ StartsWith(cs, Append(p, 34)) => IsLiteral(e, TSTRING, enc)
    /\ StartsWith(cs, Append(p, 39)) => IsLiteral(e, TCHAR, enc)

\* the text starts with L, U or u and no prefix with a quote behind it
RefNoPrefix(cs) ==
    /\ Len(cs) >= 2
    /\ cs[1] \in {76, 85, 117}
    /\ cs[2] \notin {34, 39}
    /\ ~StartsWith(cs, <<117, 56, 34>>)

\* C22 as stated: L, U, u and u8 before a double quote or an apostrophe
\* start a STRING or CHAR token with the encoding WCHAR, CHAR32, CHAR16 or
\* UTF8
C22_PrefixesAsStated ==
    \A i \in 1..Len(log) :
        Made(log[i]) =>
            /\ RefPrefix(log[i], TextFrom(log[i]), <<76>>, ENC_WCHAR)
            /\ RefPrefix(log[i], TextFrom(log[i]), <<85>>, ENC_CHAR32)
            /\ RefPrefix(log[i], TextFrom(log[i]), <<117>>, ENC_CHAR16)
            /\ RefPrefix(log[i], TextFrom(log[i]), <<117, 56>>, ENC_UTF8)

\* C22 amended: L, U and u before a double quote or an apostrophe start a
\* STRING or CHAR token with the encoding WCHAR, CHAR32 or CHAR16, and u8
\* before a double quote a STRING token with the encoding UTF8; before
\* anything else, u8 before an apostrophe included, the letters begin an
\* identifier and no character is lost
C22_Prefixes ==
    \A i \in 1..Len(log) :
        Made(log[i]) =>
            /\ RefPrefix(log[i], TextFrom(log[i]), <<76>>, ENC_WCHAR)
            /\ RefPrefix(log[i], TextFrom(log[i]), <<85>>, ENC_CHAR32)
            /\ RefPrefix(log[i], TextFrom(log[i]), <<117>>, ENC_CHAR16)
            /\ StartsWith(TextFrom(log[i]), <<117, 56, 34>>) => IsLiteral(log[i], TSTRING, ENC_UTF8)
            /\ RefNoPrefix(TextFrom(log[i])) => IsIdentOf(log[i], TextFrom(log[i]), LeftAfter(i))

\* u8"" was lexed as a STRING with the encoding UTF8
C22_Witness ==
    /\ made[1] = <<117, 56, 34, 34>>
    /\ Len(log) >= 1
    /\ IsLiteral(log[1], TSTRING, ENC_UTF8)

\* L'a' was lexed as a CHAR with the encoding WCHAR
C22_WitnessChar ==
    /\ made[1] = <<76, 39, 97, 39>>
    /\ Len(log) >= 1
    /\ IsLiteral(log[1], TCHAR, ENC_WCHAR)
    /\ log[1].tok.c = 97

\* u8 before an apostrophe was lexed as the identifier u8
C22_WitnessIdent ==
    /\ StartsWith(made[1], <<117, 56, 39>>)
    /\ Len(log) >= 1
    /\ log[1].tok.kind = TIDENT
    /\ log[1].tok.sval = <<117, 56, 0>>

(***************************************************************************)
(* Identifier starts under test: lex_init on a file of 'a', '_', '$', ';',  *)
(* the bytes 0x80, 0xFE and 0xFF, a backslash and "u00e9", then lex()      *)
(***************************************************************************)
IdentFrags ==
    {<<97>>, <<95>>, <<36>>, <<59>>, <<128>>, <<254>>, <<255>>, <<92>>, <<117, 48, 48, 101, 57>>}

IdentContents == {Flatten(ss) : ss \in UNION {[1..n -> IdentFrags] : n \in 0..MaxFrags}}

InitIdent ==
    /\ charSigned \in BOOLEAN
    /\ InitMapVars
    /\ IdleDataVars
    /\ \E data \in IdentContents : InitLexOn(data, lex_init(data))
    /\ trail = <<>>
    /\ lastc = <<0>>
    /\ ended = {}
    /\ log = <<>>
    /\ lineTok = FALSE
    /\ call = [op |-> "none"]
    /\ ungot = <<>>
    /\ levels = <<>>
    /\ nops = 0

SpecIdent == InitIdent /\ [][Lex]_vars

\* c is a letter other than the encoding prefixes L, U and u, or '_', or '$'
RefIdentLetter(c) == (isalpha(c) /\ c \notin {76, 85, 117}) \/ c = 95 \/ c = 36

\* cs starts with a universal character name: a backslash, u and four
\* hexadecimal digits, or a backslash, U and eight
RefUcn(cs) ==
    \/ /\ StartsWith(cs, <<92, 117>>)
       /\ Len(cs) >= 6
       /\ \A k \in 3..6 : isxdigit(cs[k])
    \/ /\ StartsWith(cs, <<92, 85>>)
       /\ Len(cs) >= 10
       /\ \A k \in 3..10 : isxdigit(cs[k])

\* C23: a token whose first character is a letter outside the encoding
\* prefixes, '_', '$', a byte from 0x80 on, or the backslash of a universal
\* character name is an IDENT
C23_IdentStart ==
    \A i \in 1..Len(log) :
        (/\ Made(log[i])
         /\ \/ RefIdentLetter(TextFrom(log[i])[1])
            \/ TextFrom(log[i])[1] >= 128
            \/ RefUcn(TextFrom(log[i]))) =>
            log[i].tok.kind = TIDENT

\* the same for a first character that is a letter, '_', '$' or a byte from 0x80 to 0xFD
C23_IdentStartSwitch ==
    \A i \in 1..Len(log) :
        (/\ Made(log[i])
         /\ \/ RefIdentLetter(TextFrom(log[i])[1])
            \/ TextFrom(log[i])[1] \in 128..253) =>
            log[i].tok.kind = TIDENT

\* the universal character name é at the start of a token gave an INVALID token
C23_UcnInvalid ==
    /\ Len(log) >= 1
    /\ StartsWith(made[1], <<92, 117, 48, 48, 101, 57>>)
    /\ log[1].tok.kind = TINVALID
    /\ log[1].tok.c = 92

\* a universal character name inside an identifier was read as UTF-8
C23_UcnInside ==
    /\ Len(log) >= 1
    /\ log[1].tok.kind = TIDENT
    /\ log[1].tok.sval = <<97, 195, 169, 0>>

(***************************************************************************)
(* Block comments under test: lex_init on a base file, optionally          *)
(* stream_push of a second file, then lex()                                *)
(***************************************************************************)
\* the pieces of the file under test: "/*", "*/", '/', '*', 'a', newline, backslash-newline
CommentFrags == {<<47, 42>>, <<42, 47>>, <<47>>, <<42>>, <<97>>, <<10>>, <<92, 10>>}

CommentContents == {Flatten(ss) : ss \in UNION {[1..n -> CommentFrags] : n \in 0..MaxFrags}}

\* the files a file under test is pushed onto: "a" and "*/"
CommentBases == {<<97>>, <<42, 47>>}

InitCommentOn(w, m) ==
    /\ files = w.files
    /\ stashed = w.stashed
    /\ err = w.err
    /\ buffers = w.buffers
    /\ pos = w.pos
    /\ statics = w.statics
    /\ rest = w.rest
    /\ total = CharsLeft(w, charSigned)
    /\ made = m

InitComment ==
    /\ charSigned = FALSE
    /\ InitMapVars
    /\ IdleDataVars
    /\ \E data \in CommentContents :
          \/ InitCommentOn(lex_init(data), <<data>>)
          \/ \E base \in CommentBases :
                InitCommentOn(stream_push(lex_init(base), make_file(2, data)), <<base, data>>)
    /\ trail = <<>>
    /\ lastc = <<0>>
    /\ ended = {}
    /\ log = <<>>
    /\ lineTok = FALSE
    /\ call = [op |-> "none"]
    /\ ungot = <<>>
    /\ levels = <<>>
    /\ nops = 0

\* the characters the top stream alone still delivers
TopText == CharSeq([LexWorld EXCEPT !.files = <<vec_tail(files)>>], charSigned)

\* the index of the '/' that closes the comment whose body starts at cs[j], 0 if there is none
RECURSIVE RefCommentEnd(_, _)
RefCommentEnd(cs, j) ==
    IF j >= Len(cs) THEN 0
    ELSE IF cs[j] = 42 /\ cs[j + 1] = 47 THEN j + 1
    ELSE RefCommentEnd(cs, j + 1)

RECURSIVE RefOpenComment(_, _)

RefCommentAt(cs, i, end) == IF end = 0 THEN i ELSE RefOpenComment(cs, end + 1)

\* the index of the "/*" of a comment that is not closed in cs, when only white
\* space and closed comments stand between cs[i] and it; 0 otherwise
RefOpenComment(cs, i) ==
    IF i >= Len(cs) THEN 0
    ELSE IF iswhitespace(cs[i]) THEN RefOpenComment(cs, i + 1)
    ELSE IF cs[i] = 47 /\ cs[i + 1] = 42 THEN RefCommentAt(cs, i, RefCommentEnd(cs, i + 2))
    ELSE 0

\* where the character cs[i] of the top stream's remaining text cs stands in its file
RefPosition(data, cs, i) ==
    Canon(data)[(Len(CharSeq(lex_init(data), charSigned)) - Len(cs)) + i]

CommentLexGhost(L, cs) ==
    /\ call' = [op |-> "lex", depth |-> Len(files), open |-> RefOpenComment(cs, 1),
                where |-> IF RefOpenComment(cs, 1) = 0 THEN [line |-> 0, column |-> 0]
                          ELSE RefPosition(made[vec_tail(files).id], cs, RefOpenComment(cs, 1)),
                errpos |-> L.w.errpos]
    /\ LexDone(L)

\* tok = lex()
CommentLex ==
    /\ LexRunning
    /\ CommentLexGhost(lex(LexWorld, charSigned), TopText)
    /\ UNCHANGED <<charSigned, mapVars, dataVars, trail, lastc, ended, made, total, ungot, levels, nops>>

SpecComment == InitComment /\ [][CommentLex]_vars

\* C24: a lex() call that meets a block comment which is not closed before
\* the end of its stream ends in a fatal error at the position of the
\* comment's "/*"
C24_CommentAtEof ==
    (call.op = "lex" /\ call.open > 0) => (err = "error" /\ call.errpos = call.where)

\* the same for a single file without a line splice
C24_CommentAtEofBottom ==
    (/\ Len(made) = 1
     /\ \A k \in 1..Len(made[1]) : made[1][k] # 92) => C24_CommentAtEof

\* the fatal error alone, for a single file
C24_CommentErrorBottom ==
    (Len(made) = 1 /\ call.op = "lex" /\ call.open > 0) => err = "error"


\* the same for a single file, line splices allowed
C24_CommentAtEofSingle == (Len(made) = 1) => C24_CommentAtEof


(***************************************************************************)
(* Claims about the counters and the rehash of the map                     *)
(***************************************************************************)
RECURSIVE IsPow2(_)
IsPow2(n) == IF n <= 1 THEN n = 1 ELSE (n % 2 = 0 /\ IsPow2(n \div 2))

LiveSlots(m) == {i \in 0..(m.size - 1) : m.key[i] # NULL /\ m.key[i] # TOMBSTONE}

TombSlots(m) == {i \in 0..(m.size - 1) : m.key[i] = TOMBSTONE}

\* C25: after any sequence of map_put and map_remove calls the capacity is a
\* power of two not less than 16, nelem is the number of live slots and nused
\* is the number of live slots plus the number of tombstones
C25_Counters ==
    \A m \in 1..2 :
        /\ IsPow2(maps[m].size)
        /\ maps[m].size >= INIT_SIZE
        /\ DOMAIN maps[m].key = 0..(maps[m].size - 1)
        /\ maps[m].nelem = Cardinality(LiveSlots(maps[m]))
        /\ maps[m].nused = Cardinality(LiveSlots(maps[m])) + Cardinality(TombSlots(maps[m]))

\* a grown table that holds live entries and tombstones, one of them reused
C25_Witness ==
    /\ maps[2].size = 2 * INIT_SIZE
    /\ TombSlots(maps[2]) # {}
    /\ LiveSlots(maps[2]) # {}
    /\ lastOp.op = "put"
    /\ maps[2].nused > maps[2].nelem

\* a table rehashed at its old size that holds tombstones again
C25_WitnessSameSize ==
    /\ maps[2].size = INIT_SIZE
    /\ fillRem > 0
    /\ maps[2].nused < fillPut
    /\ TombSlots(maps[2]) # {}


\* the table is rebuilt by this map_put: nused >= 0.7 * capacity
RefRehashDue(m) == 10 * m.nused >= 7 * m.size

\* the capacity the rebuilt table has
RefNewSize(m) == IF 100 * m.nelem < 35 * m.size THEN m.size ELSE 2 * m.size

\* a map_put that has rebuilt the table pre into mid and then inserted, giving post
RefRehashed(pre, mid, post) ==
    /\ mid.size = RefNewSize(pre)
    /\ TombSlots(mid) = {}
    /\ mid.nused = mid.nelem
    /\ mid.nelem = pre.nelem
    /\ {mid.key[i] : i \in LiveSlots(mid)} = {pre.key[i] : i \in LiveSlots(pre)}
    /\ post.size = mid.size
    /\ TombSlots(post) = {}
    /\ post.nused = post.nelem

\* a map_put of key that has left the table pre where it was, giving post
RefNotRehashed(pre, post, key) ==
    /\ post.size = pre.size
    /\ \A i \in 0..(pre.size - 1) :
          \/ post.key[i] = pre.key[i]
          \/ pre.key[i] \in {NULL, TOMBSTONE} /\ post.key[i] = key

PutStep(pre, post, op, rehash) ==
    IF RefRehashDue(pre)
    THEN rehash.done /\ rehash.before = pre /\ RefRehashed(pre, rehash.after, post)
    ELSE ~rehash.done /\ RefNotRehashed(pre, post, op.key)

\* C26: map_put rebuilds the table before inserting exactly when nused >= 0.7
\* * capacity; the new capacity is the old one when nelem < 0.35 * capacity and
\* twice the old one otherwise; the rebuilt table has no tombstones and nused =
\* nelem
C26_RehashPolicy ==
    [][lastOp'.op = "put" => PutStep(maps[lastOp'.m], maps'[lastOp'.m], lastOp', lastRehash')]_vars

\* a rehash at the old capacity that has cleared tombstones
C26_Witness ==
    /\ lastRehash.done
    /\ lastRehash.after.size = lastRehash.before.size
    /\ TombSlots(lastRehash.before) # {}
    /\ lastOp.op = "put"

\* a rehash that has doubled the capacity
C26_WitnessDouble ==
    /\ lastRehash.done
    /\ lastRehash.after.size = 2 * lastRehash.before.size
    /\ lastOp.op = "put"

\* a map_put just below the threshold: it finds 11 of 16 slots used and does not rehash
C26_WitnessBelow ==
    /\ lastOp.op = "put"
    /\ ~lastRehash.done
    /\ maps[2].size = INIT_SIZE
    /\ maps[2].nused = 12


\* the keys that have a live slot in m
LiveKeys(m) == {m.key[i] : i \in LiveSlots(m)}

\* C27: a map_put of a key that is live in the map leaves nelem as it is, no
\* key occupies more than one live slot, and map_len is the number of distinct
\* keys bound in the map
C27_UpdateInPlace ==
    [][lastOp'.op = "put" =>
          /\ (lastOp'.key \in LiveKeys(maps[lastOp'.m]) =>
                 map_len(maps'[lastOp'.m]) = map_len(maps[lastOp'.m]))
          /\ \A m \in 1..2 : map_len(maps'[m]) = Cardinality(LiveKeys(maps'[m]))]_vars

\* the state part of C27: map_len is the number of distinct live keys
C27_LenIsDistinctKeys ==
    \A m \in 1..2 : map_len(maps[m]) = Cardinality(LiveKeys(maps[m]))

\* a map_put of a live key, the part of C27 that holds while no tombstone
\* precedes the key on its probe chain
C27_UpdateNoTombstone ==
    [][(/\ lastOp'.op = "put"
        /\ TombSlots(maps[lastOp'.m]) = {}
        /\ lastOp'.key \in LiveKeys(maps[lastOp'.m])) =>
          /\ map_len(maps'[lastOp'.m]) = map_len(maps[lastOp'.m])
          /\ LiveKeys(maps'[lastOp'.m]) = LiveKeys(maps[lastOp'.m])]_vars


\* C28: map_put and map_remove on a map made by make_map_parent leave the
\* parent as it was: its slots, nelem, nused and capacity, and what map_get on
\* the parent returns (looked up for the key of the call)
C28_ParentUnchanged ==
    [][lastOp'.m = 2 =>
          /\ maps'[1] = maps[1]
          /\ map_get(maps', 1, lastOp'.key, charSigned) = map_get(maps, 1, lastOp'.key, charSigned)
          /\ maps'[2].parent = 1]_vars

\* the child has been written and rehashed while the parent binds a key that
\* the child has bound and removed
C28_Witness ==
    /\ lastOp.m = 2
    /\ maps[1].nelem > 0
    /\ maps[2].size > INIT_SIZE
    /\ \E k \in ProbeKeys :
          /\ bind[1][k] # 0
          /\ bind[2][k] = 0
    /\ TombSlots(maps[2]) # {}


(***************************************************************************)
(* The scope chain with null values: map_put(m, k, NULL) is a legal call   *)
(***************************************************************************)
\* map_put(m, k, NULL) for one of the colliding keys, on the child scope
PutNull ==
    \E key \in ProbeKeys :
        /\ probeOps < MaxProbeOps
        /\ DoPut(2, key, 0)
        /\ probeOps' = probeOps + 1
        /\ UNCHANGED <<charSigned, fillPut, fillRem, dataVars, streamVars, lexVars, callVars>>

NextScope == Put \/ Remove \/ PutNull

SpecScope == InitMap /\ [][NextScope]_vars

\* the values m's own live slots bind k to
OwnValues(m, k) == {m.val[i] : i \in {j \in LiveSlots(m) : m.key[j] = k}}

\* C29: map_get(m, k) returns m's own binding for k whenever m holds a live
\* entry for k, whatever the value, and what the parent chain gives (a miss
\* without a parent) only when m has no live entry for k
C29_OwnBindingFirst ==
    \A m \in 1..2 : \A k \in ProbeKeys :
        IF OwnValues(maps[m], k) # {}
        THEN map_get(maps, m, k, charSigned) \in OwnValues(maps[m], k)
        ELSE IF maps[m].parent # 0
        THEN map_get(maps, m, k, charSigned) = map_get(maps, maps[m].parent, k, charSigned)
        ELSE map_get(maps, m, k, charSigned) = 0

\* the same while every live entry binds a non-null value
C29_OwnBindingNonNull ==
    (\A m \in 1..2 : \A i \in LiveSlots(maps[m]) : maps[m].val[i] # 0) => C29_OwnBindingFirst

\* the child binds a key to NULL that the parent binds to a value
C29_NullShadow ==
    \E k \in ProbeKeys :
        /\ OwnValues(maps[2], k) = {0}
        /\ OwnValues(maps[1], k) = {3}
        /\ map_get(maps, 2, k, charSigned) = 3


(***************************************************************************)
(* hash() on its own: keys of a few bytes, in both kinds of build          *)
(***************************************************************************)
\* length of a key of the hash driver, at most
MaxKeyLen == 3

\* the bytes the keys are made of: 0x01, 'a', 0x7F, 0x80, 0xFF
HashBytes == {1, 97, 127, 128, 255}

\* NUL-terminated keys
HashKeys == {Append(k, 0) : k \in UNION {[1..n -> HashBytes] : n \in 1..MaxKeyLen}}

InitHash ==
    /\ charSigned \in BOOLEAN
    /\ InitMapVars
    /\ IdleDataVars
    /\ IdleStreamVars
    /\ IdleLexVars

\* hash(key), as map_get, map_put and map_remove call it
HashKey ==
    \E key \in HashKeys :
        /\ call.op = "none"
        /\ call' = [op |-> "hash", key |-> key, r |-> hash(key, charSigned)]
        /\ UNCHANGED <<charSigned, mapVars, dataVars, streamVars, lexVars, ungot, levels, nops>>

SpecHash == InitHash /\ [][HashKey]_vars

\* a xor b for a and b in 0..255, bit by bit
RefXor8(a, b) ==
    LET bit(x, i) == (x \div (2 ^ i)) % 2
    IN  ((((((((bit(a, 0) + bit(b, 0)) % 2)
        + (2 * ((bit(a, 1) + bit(b, 1)) % 2)))
        + (4 * ((bit(a, 2) + bit(b, 2)) % 2)))
        + (8 * ((bit(a, 3) + bit(b, 3)) % 2)))
        + (16 * ((bit(a, 4) + bit(b, 4)) % 2)))
        + (32 * ((bit(a, 5) + bit(b, 5)) % 2)))
        + (64 * ((bit(a, 6) + bit(b, 6)) % 2)))
        + (128 * ((bit(a, 7) + bit(b, 7)) % 2))

\* one round of FNV-1a on the 32-bit value 65536 * hi + lo with the byte b:
\* xor b into the low byte, then multiply by 16777619 = 2^24 + 403 modulo 2^32
RefFnvRound(hi, lo, b) ==
    LET x == (lo - (lo % 256)) + RefXor8(lo % 256, b)
    IN  [hi |-> ((hi * 403) + ((x * 403) \div 65536) + ((x % 256) * 256)) % 65536,
         lo |-> (x * 403) % 65536]

\* FNV-1a of the bytes key[i..] before the terminating NUL, from 65536 * hi + lo
RECURSIVE RefFnv1aFrom(_, _, _, _)
RefFnv1aFrom(key, i, hi, lo) ==
    IF key[i] = 0 THEN [hi |-> hi, lo |-> lo]
    ELSE RefFnv1aFrom(key, i + 1, RefFnvRound(hi, lo, key[i]).hi, RefFnvRound(hi, lo, key[i]).lo)

\* the offset basis 2166136261 = 65536 * 33052 + 40389
RefFnv1a(key) == RefFnv1aFrom(key, 1, 33052, 40389)

\* C30: for every key of non-zero bytes hash(key) is the standard 32-bit
\* FNV-1a hash, each byte entering with its value 0 to 255
C30_HashIsFnv1a == call.op = "hash" => call.r = RefFnv1a(call.key)

\* the same for keys of bytes below 0x80, and for every key where char is unsigned
C30_HashIsFnv1aPlain ==
    (/\ call.op = "hash"
     /\ (charSigned => \A i \in 1..Len(call.key) : call.key[i] < 128)) => call.r = RefFnv1a(call.key)

\* the published FNV-1a test vector: "a" hashes to 0xE40C292C
C30_Example ==
    /\ call.op = "hash"
    /\ call.key = <<97, 0>>
    /\ call.r = [hi |-> 58380, lo |-> 10540]
    /\ RefFnv1a(call.key) = call.r

\* where char is signed the byte 0x80 hashes to 0x04F3B29F instead of 0x850B939F
C30_SignExtended ==
    /\ charSigned
    /\ call.op = "hash"
    /\ call.key = <<128, 0>>
    /\ call.r = [hi |-> 1267, lo |-> 45727]
    /\ RefFnv1a(call.key) = [hi |-> 34059, lo |-> 37791]


(***************************************************************************)
(* vector.c: a Vector is the record of len, nalloc and the elements        *)
(* body[0 .. len - 1]; what lies beyond len in body is indeterminate       *)
(***************************************************************************)
MIN_SIZE == 8

\* number of elements the vector driver lets a vector hold, at most
MaxVecLen == 9

\* number of Vector objects the vector driver creates, at most
MaxVectors == 2

max(a, b) == IF a > b THEN a ELSE b

RECURSIVE RoundupLoop(_, _)
RoundupLoop(n, r) == IF n > r THEN RoundupLoop(n, r * 2) ELSE r

roundup(n) == IF n = 0 THEN 0 ELSE RoundupLoop(n, 1)

do_make_vector(size) == [body |-> <<>>, len |-> 0, nalloc |-> roundup(size)]

make_vector == do_make_vector(0)

\* mutant: the new capacity is the needed length, not rounded up
extend_exact(vec, delta) ==
    IF vec.len + delta <= vec.nalloc THEN vec
    ELSE [vec EXCEPT !.nalloc = max(vec.len + delta, MIN_SIZE)]

extend(vec, delta) ==
    IF vec.len + delta <= vec.nalloc THEN vec
    ELSE [vec EXCEPT !.nalloc = max(roundup(vec.len + delta), MIN_SIZE)]

\* vec->body[vec->len++] = elem
PushOn(vec, elem) == [vec EXCEPT !.body = Append(vec.body, elem), !.len = vec.len + 1]

vec_push(vec, elem) == PushOn(extend(vec, 1), elem)

make_vector1(e) == vec_push(do_make_vector(0), e)

CopyOn(r, src) == [r EXCEPT !.body = src.body, !.len = src.len]

vec_copy(src) == CopyOn(do_make_vector(src.len), src)

AppendOn(a, b) == [a EXCEPT !.body = a.body \o b.body, !.len = a.len + b.len]

vec_append(a, b) == AppendOn(extend(a, b.len), b)

\* return vec->body[--vec->len], for a vector with len > 0
vec_pop_elem(vec) == [vec EXCEPT !.body = SubSeq(vec.body, 1, vec.len - 1), !.len = vec.len - 1]

\* index counts from 0 as in the source
vec_set(vec, index, val) == [vec EXCEPT !.body[index + 1] = val]

ReverseOn(r, vec) ==
    [r EXCEPT !.body = [i \in 1..vec.len |-> vec.body[(vec.len - i) + 1]], !.len = vec.len]

vec_reverse(vec) == ReverseOn(do_make_vector(vec.len), vec)

(***************************************************************************)
(* The vector driver                                                       *)
(***************************************************************************)
\* elements are opaque pointers; the claims are about len and nalloc, one value is enough
VecElems == {1}

InitVector ==
    /\ charSigned = FALSE
    /\ InitMapVars
    /\ IdleStreamVars
    /\ IdleLexVars
    /\ IdleBufVars
    /\ vectors = <<>>

VecFrame ==
    UNCHANGED <<charSigned, mapVars, streamVars, lexVars, ungot, levels, nops, strbuf, wrote>>

NewVector(v, op) ==
    /\ Len(vectors) < MaxVectors
    /\ vectors' = Append(vectors, v)
    /\ call' = [op |-> op, v |-> Len(vectors) + 1]
    /\ VecFrame

SetVector(i, v, op) ==
    /\ vectors' = [vectors EXCEPT ![i] = v]
    /\ call' = [op |-> op, v |-> i]
    /\ VecFrame

MakeVector == NewVector(make_vector, "make_vector")

MakeVector1 == \E e \in VecElems : NewVector(make_vector1(e), "make_vector1")

VecPush ==
    \E i \in 1..Len(vectors), e \in VecElems :
        /\ vectors[i].len < MaxVecLen
        /\ SetVector(i, vec_push(vectors[i], e), "vec_push")

VecPop ==
    \E i \in 1..Len(vectors) :
        /\ vectors[i].len > 0
        /\ SetVector(i, vec_pop_elem(vectors[i]), "vec_pop")

VecAppend ==
    \E i \in 1..Len(vectors), j \in 1..Len(vectors) :
        /\ vectors[i].len + vectors[j].len <= MaxVecLen
        /\ SetVector(i, vec_append(vectors[i], vectors[j]), "vec_append")

VecCopy == \E i \in 1..Len(vectors) : NewVector(vec_copy(vectors[i]), "vec_copy")

VecReverse == \E i \in 1..Len(vectors) : NewVector(vec_reverse(vectors[i]), "vec_reverse")

VecSet ==
    \E i \in 1..Len(vectors), e \in VecElems :
        /\ vectors[i].len > 0
        /\ SetVector(i, vec_set(vectors[i], vectors[i].len - 1, e), "vec_set")

NextVector ==
    \/ MakeVector
    \/ MakeVector1
    \/ VecPush
    \/ VecPop
    \/ VecAppend
    \/ VecCopy
    \/ VecReverse
    \/ VecSet

SpecVector == InitVector /\ [][NextVector]_vars

\* C31: after any sequence of vector operations every vector's capacity is 0
\* or a power of two not less than 8, is at least its length, and never
\* decreases
C31_Capacity ==
    [][\A i \in 1..Len(vectors') :
          /\ vectors'[i].nalloc = 0 \/ (IsPow2(vectors'[i].nalloc) /\ vectors'[i].nalloc >= MIN_SIZE)
          /\ vectors'[i].nalloc >= vectors'[i].len
          /\ i <= Len(vectors) => vectors'[i].nalloc >= vectors[i].nalloc]_vars

\* C31 as the code has it: every capacity is 0 or a power of two, is at least
\* the length and never decreases, and a capacity that an operation in place
\* changes becomes a power of two not less than 8
C31_CapacityAmended ==
    [][\A i \in 1..Len(vectors') :
          /\ vectors'[i].nalloc = 0 \/ IsPow2(vectors'[i].nalloc)
          /\ vectors'[i].nalloc >= vectors'[i].len
          /\ i <= Len(vectors) => vectors'[i].nalloc >= vectors[i].nalloc
          /\ (i <= Len(vectors) /\ vectors'[i].nalloc # vectors[i].nalloc) =>
                 vectors'[i].nalloc >= MIN_SIZE]_vars

\* a vector has grown from 8 to 16 elements of capacity by vec_push or vec_append
C31_Witness ==
    /\ call.op \in {"vec_push", "vec_append"}
    /\ vectors[call.v].len = MIN_SIZE + 1
    /\ vectors[call.v].nalloc = 2 * MIN_SIZE

\* a copy has grown from capacity 4 to capacity 8
C31_WitnessCopyGrown ==
    /\ Len(vectors) = 2
    /\ call.op = "vec_push"
    /\ call.v = 2
    /\ vectors[2].len = 5
    /\ vectors[2].nalloc = MIN_SIZE

\* a copy of a three-element vector has capacity 4
C31_SmallCopy ==
    /\ call.op = "vec_copy"
    /\ vectors[call.v].len = 3
    /\ vectors[call.v].nalloc = 4


(***************************************************************************)
(* The pushback buffer under the lexer's entry points                      *)
(***************************************************************************)
\* number of pieces an input file of the pushback driver is made of, at most
MaxPushFrags == 3

\* the pieces of the input files: "%:%", ':', '\', 'a', newline, "u8", '<'
PushbackFrags ==
    {<<37, 58, 37>>, <<58>>, <<92>>, <<97>>, <<10>>, <<117, 56>>, <<60>>}

PushbackContents == {Flatten(ss) : ss \in UNION {[1..n -> PushbackFrags] : n \in 0..MaxPushFrags}}

\* the strings handed to lex_string: "%:%\a", "u8\" and "a"
PushbackStrings == {<<37, 58, 37, 92, 97>>, <<117, 56, 92>>, <<97>>}

InitPushback ==
    /\ charSigned = FALSE
    /\ InitMapVars
    /\ IdleDataVars
    /\ \E data \in PushbackContents : InitLexOn(data, lex_init(data))
    /\ trail = <<>>
    /\ lastc = <<0>>
    /\ ended = {}
    /\ log = <<>>
    /\ lineTok = FALSE
    /\ call = [op |-> "none"]
    /\ ungot = <<>>
    /\ levels = <<>>
    /\ nops = 0

\* tok = lex_string(str), once in a run, for the strings of the pushback driver
PushbackLexString ==
    /\ LexRunning
    /\ nops = 0
    /\ nops' = 1
    /\ \E str \in PushbackStrings : LexStringDone(lex_string(LexWorld, str, 2, charSigned), str)
    /\ UNCHANGED <<charSigned, mapVars, dataVars, trail, lastc, ended, made, total, log, lineTok,
                   ungot, levels>>

NextPushback == Lex \/ SkipCondIncl \/ ReadHeader \/ PushbackLexString

SpecPushback == InitPushback /\ [][NextPushback]_vars

\* C32: under every sequence of lex, lex_string, skip_cond_incl and
\* read_header_file_name the assertion of unreadc never fails, and no stream's
\* pushback buffer holds more than 3 characters
C32_PushbackFits ==
    /\ err # "assert"
    /\ \A i \in 1..Len(files) : Len(files[i].buf) <= BUF_CAP

\* the buffer is full: "%:%" before a backslash and another character leaves
\* three characters pushed back
C32_Witness ==
    /\ err = ""
    /\ Len(files) = 1
    /\ files[1].buf = <<97, 92, 37>>


(***************************************************************************)
(* The space flag of the tokens lex() reads from the characters            *)
(***************************************************************************)
\* the pieces of the input files: 'a', ';', ' ', newline, "/**/", "//"
SpaceFrags == {<<97>>, <<59>>, <<32>>, <<10>>, <<47, 42, 42, 47>>, <<47, 47>>}

SpaceContents == {Flatten(ss) : ss \in UNION {[1..n -> SpaceFrags] : n \in 0..MaxFrags}}

InitSpace ==
    /\ charSigned = FALSE
    /\ InitMapVars
    /\ IdleDataVars
    /\ \E data \in SpaceContents : InitLexOn(data, lex_init(data))
    /\ trail = <<>>
    /\ lastc = <<0>>
    /\ ended = {}
    /\ log = <<>>
    /\ lineTok = FALSE
    /\ call = [op |-> "none"]
    /\ ungot = <<>>
    /\ levels = <<>>
    /\ nops = 0

\* the text cs starts with a white space character or with a comment
RefSpaceAhead(cs) ==
    /\ cs # <<>>
    /\ \/ iswhitespace(cs[1])
       \/ cs[1] = 47 /\ Len(cs) >= 2 /\ cs[2] \in {42, 47}

SpaceLexGhost(L, cs) ==
    /\ call' = [op |-> "lex", skipped |-> RefSpaceAhead(cs), tok |-> TokenAt(L.w, L.tok),
                nth |-> Len(log) + 1]
    /\ LexDone(L)

\* tok = lex()
SpaceLex ==
    /\ LexRunning
    /\ SpaceLexGhost(lex(LexWorld, charSigned), CharSeq(LexWorld, charSigned))
    /\ UNCHANGED <<charSigned, mapVars, dataVars, trail, lastc, ended, made, total, ungot, levels, nops>>

SpecSpace == InitSpace /\ [][SpaceLex]_vars

\* C33: the space flag of a token that lex() returns from the characters is
\* true iff at least one white space character or comment was skipped between
\* the previous token and it
C33_SpaceFlag ==
    (call.op = "lex" /\ err = "") => (call.tok.space <=> call.skipped)

\* the same for the tokens that make_token allocates: every kind but NEWLINE and EOF
C33_SpaceFlagAllocated ==
    (call.op = "lex" /\ err = "" /\ call.tok.kind \notin StaticKinds) =>
        (call.tok.space <=> call.skipped)

\* a NEWLINE or EOF token has the flag once any NEWLINE or EOF before it had it
C33_SpaceFlagSticks ==
    (call.op = "lex" /\ err = "" /\ call.tok.kind \in StaticKinds /\ call.skipped) =>
        call.tok.space

\* the second NEWLINE of " \n\n" carries the flag of the first
C33_StaleFlag ==
    /\ made = <<<<32, 10, 10>>>>
    /\ call.op = "lex"
    /\ call.nth = 2
    /\ call.tok.kind = TNEWLINE
    /\ call.tok.space
    /\ ~call.skipped


(***************************************************************************)
(* quote_cstring and quote_cstring_len (buffer.c)                          *)
(***************************************************************************)
\* length of a string handed to quote_cstring_len, at most
MaxQuoteLen == 2

\* quote(c): the escape of c, NULL when it has none
quote(c) ==
    IF c = 34 THEN <<92, 34>>
    ELSE IF c = 92 THEN <<92, 92>>
    ELSE IF c = 8 THEN <<92, 98>>
    ELSE IF c = 12 THEN <<92, 102>>
    ELSE IF c = 10 THEN <<92, 110>>
    ELSE IF c = 13 THEN <<92, 114>>
    ELSE IF c = 9 THEN <<92, 116>>
    ELSE NULL

\* isprint(c) in the C locale; for a negative c other than EOF the call is
\* undefined and returns undef, one of the two truth values
isprint(c, undef) == IF c >= 0 \/ c = EOF THEN (c >= 32 /\ c <= 126) ELSE undef

\* the lower-case hexadecimal digit of d in 0..15
HexDigit(d) == IF d < 10 THEN 48 + d ELSE 87 + d

\* "%02x" of the int c: c is converted to unsigned int, so a negative char
\* prints the eight digits of 2^32 + c
FormatX(c) ==
    IF c >= 0 THEN <<HexDigit(c \div 16), HexDigit(c % 16)>>
    ELSE <<102, 102, 102, 102, 102, 102, HexDigit((256 + c) \div 16), HexDigit((256 + c) % 16)>>

\* what print(b, c) appends to the buffer
print(c, undef) ==
    IF quote(c) # NULL THEN quote(c)
    ELSE IF isprint(c, undef) THEN <<c % 256>>
    ELSE <<92, 120>> \o FormatX(c)

RECURSIVE QuoteLoop(_, _, _, _, _)
QuoteLoop(p, i, len, signed, undef) ==
    IF i > len THEN <<>>
    ELSE print(CharVal(p[i], signed), undef) \o QuoteLoop(p, i + 1, len, signed, undef)

\* for (i = 0; i < len; i++) print(b, p[i])
quote_cstring_len(p, len, signed, undef) == QuoteLoop(p, 1, len, signed, undef)

\* the number of bytes of p before its first NUL
RECURSIVE strlen(_, _)
strlen(p, i) == IF i > Len(p) \/ p[i] = 0 THEN i - 1 ELSE strlen(p, i + 1)

\* while (*p) print(b, *p++)
quote_cstring(p, signed, undef) == QuoteLoop(p, 1, strlen(p, 1), signed, undef)

\* the bytes under test: NUL, 0x01, the seven escaped ones, ' ', 'a', '~',
\* 0x1F, 0x7F, 0x80, 0xFF
QuoteBytes == {0, 1, 8, 9, 10, 12, 13, 34, 92, 32, 97, 126, 31, 127, 128, 255}

QuoteStrings == UNION {[1..n -> QuoteBytes] : n \in 0..MaxQuoteLen}

InitQuote ==
    /\ charSigned \in BOOLEAN
    /\ InitMapVars
    /\ IdleDataVars
    /\ IdleStreamVars
    /\ IdleLexVars

QuoteFrame == UNCHANGED <<charSigned, mapVars, dataVars, streamVars, lexVars, ungot, levels, nops>>

\* quote_cstring_len(p, len) with len the length of p
QuoteCstringLen ==
    \E p \in QuoteStrings, undef \in BOOLEAN :
        /\ call.op = "none"
        /\ call' = [op |-> "quote_cstring_len", p |-> p, n |-> Len(p),
                    r |-> quote_cstring_len(p, Len(p), charSigned, undef)]
        /\ QuoteFrame

\* quote_cstring(p), p being NUL-terminated
QuoteCstring ==
    \E p \in QuoteStrings, undef \in BOOLEAN :
        /\ call.op = "none"
        /\ call' = [op |-> "quote_cstring", p |-> p, n |-> strlen(p, 1),
                    r |-> quote_cstring(Append(p, 0), charSigned, undef)]
        /\ QuoteFrame

NextQuote == QuoteCstringLen \/ QuoteCstring

SpecQuote == InitQuote /\ [][NextQuote]_vars

\* the rendering of the byte b in 0..255 as the claim gives it
RefQuoteByte(b) ==
    CASE b = 34 -> <<92, 34>>
      [] b = 92 -> <<92, 92>>
      [] b = 8 -> <<92, 98>>
      [] b = 12 -> <<92, 102>>
      [] b = 10 -> <<92, 110>>
      [] b = 13 -> <<92, 114>>
      [] b = 9 -> <<92, 116>>
      [] b \in 32..126 /\ b \notin {34, 92} -> <<b>>
      [] OTHER -> <<92, 120,
                    SubSeq(<<48, 49, 50, 51, 52, 53, 54, 55, 56, 57, 97, 98, 99, 100, 101, 102>>,
                           (b \div 16) + 1, (b \div 16) + 1)[1],
                    SubSeq(<<48, 49, 50, 51, 52, 53, 54, 55, 56, 57, 97, 98, 99, 100, 101, 102>>,
                           (b % 16) + 1, (b % 16) + 1)[1]>>

RECURSIVE RefQuote(_, _, _)
RefQuote(p, i, n) == IF i > n THEN <<>> ELSE RefQuoteByte(p[i]) \o RefQuote(p, i + 1, n)

\* C34: quote_cstring and quote_cstring_len render every input byte as its
\* two-character escape, as itself when printable, and otherwise as \x and
\* exactly two hexadecimal digits
C34_QuoteBytes ==
    call.op \in {"quote_cstring", "quote_cstring_len"} => call.r = RefQuote(call.p, 1, call.n)

\* the same for bytes below 0x80, and for every byte where char is unsigned
C34_QuoteBytesPlain ==
    (/\ call.op \in {"quote_cstring", "quote_cstring_len"}
     /\ (charSigned => \A i \in 1..call.n : call.p[i] < 128)) => call.r = RefQuote(call.p, 1, call.n)

\* where char is signed the byte 0x80 is rendered with eight digits: \xffffff80
C34_EightDigits ==
    /\ charSigned
    /\ call.op = "quote_cstring"
    /\ call.p = <<128>>
    /\ call.r = <<92, 120, 102, 102, 102, 102, 102, 102, 56, 48>>

\* the escapes and the two-digit form: "\n" and 0x7F
C34_Example ==
    /\ call.op = "quote_cstring_len"
    /\ call.p = <<10, 127>>
    /\ call.r = <<92, 110, 92, 120, 55, 102>>


(***************************************************************************)
(* main.c: parseopt. A command line is a sequence of options followed by   *)
(* file operands                                                           *)
(***************************************************************************)
\* number of options on a command line of the option driver, at most
MaxArgs == 3

\* number of file operands on a command line of the option driver, at most
MaxOperands == 2

Options == {"-a", "-c", "-E", "-S", "-g", "-h", "-fdump-ast"}

NoFlags == [dumpast |-> FALSE, cpponly |-> FALSE, dumpasm |-> FALSE, dontlink |-> FALSE,
            exit |-> "none"]

\* usage(exitcode): print the help and exit
usage(st, exitcode) == [st EXCEPT !.exit = IF exitcode = 0 THEN "usage0" ELSE "usage1"]

\* parse_f_arg("dump-ast")
parse_f_arg(st) == [st EXCEPT !.dumpast = TRUE]

\* the switch on the option getopt returns; 'a' is in the option string of
\* getopt but has no case, so it takes the default
OptSwitch(st, opt) ==
    CASE opt = "-E" -> [st EXCEPT !.cpponly = TRUE]
      [] opt = "-S" -> [st EXCEPT !.dumpasm = TRUE]
      [] opt = "-c" -> [st EXCEPT !.dontlink = TRUE]
      [] opt = "-fdump-ast" -> parse_f_arg(st)
      [] opt = "-g" -> st
      [] opt = "-h" -> usage(st, 0)
      [] OTHER -> usage(st, 1)

\* for (;;) { opt = getopt(...); if (opt == -1) break; switch (opt) ... }
RECURSIVE OptLoop(_, _, _)
OptLoop(st, argv, i) ==
    IF i > Len(argv) \/ st.exit # "none" THEN st
    ELSE OptLoop(OptSwitch(st, argv[i]), argv, i + 1)

\* after the loop: optind != argc - 1, and the check of the mode flags
OptEnd(st, operands) ==
    IF st.exit # "none" THEN st
    ELSE IF operands # 1 THEN usage(st, 1)
    ELSE IF ~st.dumpast /\ ~st.cpponly /\ ~st.dumpasm /\ ~st.dontlink
    THEN [st EXCEPT !.exit = "error"]
    ELSE [st EXCEPT !.exit = "ok"]

parseopt(argv, operands) == OptEnd(OptLoop(NoFlags, argv, 1), operands)

CommandLines == UNION {[1..n -> Options] : n \in 0..MaxArgs}

InitOpt ==
    /\ charSigned = FALSE
    /\ InitMapVars
    /\ IdleDataVars
    /\ IdleStreamVars
    /\ IdleLexVars

\* parseopt(argc, argv), once at the start of main
Parseopt ==
    \E argv \in CommandLines, operands \in 0..MaxOperands :
        /\ call.op = "none"
        /\ call' = [op |-> "parseopt", argv |-> argv, operands |-> operands,
                    r |-> parseopt(argv, operands)]
        /\ UNCHANGED <<charSigned, mapVars, dataVars, streamVars, lexVars, ungot, levels, nops>>

SpecOpt == InitOpt /\ [][Parseopt]_vars

ModeOptions == {"-a", "-c", "-E", "-S"}

\* the mode options that appear on the command line
ModesOf(argv) == {argv[i] : i \in 1..Len(argv)} \cap ModeOptions

\* C35: parseopt accepts a command line only when exactly one of -a, -c, -E,
\* -S appears, and accepts each of the four on its own (with one file)
C35_ExactlyOneMode ==
    call.op = "parseopt" =>
        /\ call.r.exit = "ok" => Cardinality(ModesOf(call.argv)) = 1
        /\ (Len(call.argv) = 1 /\ call.argv[1] \in ModeOptions /\ call.operands = 1) =>
               call.r.exit = "ok"

\* what the code accepts: one file operand, no -a and no -h, and at least one
\* of -c, -E, -S, -fdump-ast
C35_Accepted ==
    call.op = "parseopt" =>
        (call.r.exit = "ok" <=>
            /\ call.operands = 1
            /\ \A i \in 1..Len(call.argv) : call.argv[i] \notin {"-a", "-h"}
            /\ \E i \in 1..Len(call.argv) : call.argv[i] \in {"-c", "-E", "-S", "-fdump-ast"})

\* a command line without any of -c, -E, -S, -fdump-ast is never accepted
C35_NoneRejected ==
    (/\ call.op = "parseopt"
     /\ \A i \in 1..Len(call.argv) : call.argv[i] \notin {"-c", "-E", "-S", "-fdump-ast"}) =>
        call.r.exit \in {"error", "usage0", "usage1"}

\* "8cc -a file" ends in usage(1)
C35_DashARejected ==
    /\ call.op = "parseopt"
    /\ call.argv = <<"-a">>
    /\ call.operands = 1
    /\ call.r.exit = "usage1"

\* "8cc -c -S file" is accepted
C35_TwoModesAccepted ==
    /\ call.op = "parseopt"
    /\ call.argv = <<"-c", "-S">>
    /\ call.operands = 1
    /\ call.r.exit = "ok"


(***************************************************************************)
(* Numeric escapes under test: lex_init on a file that holds what follows  *)
(* a backslash, then read_escaped_char()                                   *)
(***************************************************************************)
\* number of pieces an input file of the escape driver is made of, at most
MaxEscFrags == 4

\* the pieces of the input files: 'u', 'U', 'x', '0', '8', 'g', "00", "24", "A0", "D8"
\* and "0000"
EscapeFrags ==
    {<<117>>, <<85>>, <<120>>, <<48>>, <<56>>, <<103>>, <<48, 48>>, <<50, 52>>,
     <<65, 48>>, <<68, 56>>, <<48, 48, 48, 48>>}

EscapeContents ==
    {Flatten(ss) : ss \in UNION {[1..n -> EscapeFrags] : n \in 1..MaxEscFrags}}

InitEscape ==
    /\ charSigned = FALSE
    /\ InitMapVars
    /\ IdleDataVars
    /\ \E data \in EscapeContents : InitLexOn(data, lex_init(data))
    /\ trail = <<>>
    /\ lastc = <<0>>
    /\ ended = {}
    /\ log = <<>>
    /\ lineTok = FALSE
    /\ call = [op |-> "none"]
    /\ ungot = <<>>
    /\ levels = <<>>
    /\ nops = 0

ReadEscapedCharDone(e) ==
    /\ SetLexWorld(e.w)
    /\ call' = [op |-> "read_escaped_char", c |-> e.c]

\* c = read_escaped_char(), called right after a backslash was read
ReadEscapedChar ==
    /\ call.op = "none"
    /\ ReadEscapedCharDone(read_escaped_char(LexWorld, charSigned))
    /\ UNCHANGED <<charSigned, mapVars, dataVars, trail, lastc, ended, made, total, log, lineTok,
                   ungot, levels, nops>>

SpecEscape == InitEscape /\ [][ReadEscapedChar]_vars

\* the number of characters the call has taken from the stream
EscapeConsumed == total - CharsLeft(LexWorld, charSigned)

\* the call returned without a fatal error, took the first n characters of the
\* input, left the others unread, and (where given) returned the number that
\* the digits from the given index up to n spell in the given base
RefEscapeTook(n, from, base) ==
    /\ err = ""
    /\ EscapeConsumed = n
    /\ CharSeq(LexWorld, charSigned) = Append(SubSeq(made[1], n + 1, Len(made[1])), 10)
    /\ (n - from < 7) => call.c = RefNumber(SubSeq(made[1], from, n), base)

RefUcnBad(v) == (v >= 55296 /\ v <= 57343) \/ (v < 160 /\ v \notin {36, 64, 96})

\* a universal character name of len digits: a fatal error when one of the len
\* characters is no hexadecimal digit or the value is not allowed
RefUcnEscape(cs, len) ==
    IF RefHexEnd(cs, 2) < len + 2 THEN err = "error"
    ELSE IF HexVal(cs[2]) >= 8 /\ len = 8 THEN err = "" /\ EscapeConsumed = len + 1
    ELSE IF RefUcnBad(RefNumber(SubSeq(cs, 2, len + 1), 16)) THEN err = "error"
    ELSE /\ err = ""
         /\ EscapeConsumed = len + 1
         /\ call.c = RefNumber(SubSeq(cs, 2, len + 1), 16)

RefNumericEscape(cs) ==
    IF IsOct(cs[1]) THEN RefEscapeTook(RefOctEnd(cs, 1, 3) - 1, 1, 8)
    ELSE IF cs[1] = 120
    THEN IF RefHexEnd(cs, 2) = 2 THEN err = "error"
         ELSE RefEscapeTook(RefHexEnd(cs, 2) - 1, 2, 16)
    ELSE IF cs[1] = 117 THEN RefUcnEscape(cs, 4)
    ELSE IF cs[1] = 85 THEN RefUcnEscape(cs, 8)
    ELSE TRUE

\* C36: read_escaped_char takes 1 to 3 octal digits and leaves the next
\* character unread; after x it takes every hexadecimal digit that follows and
\* fails when there is none; after u and U it takes exactly 4 and 8
\* hexadecimal digits and fails when one is missing or when the value is in
\* U+D800..U+DFFF or below U+00A0 and none of '$', '@', '`'
C36_NumericEscapes == call.op = "read_escaped_char" => RefNumericEscape(made[1])

\* \0008: three octal digits taken, the fourth digit and the 8 left unread
C36_Witness ==
    /\ call.op = "read_escaped_char"
    /\ made[1] = <<48, 48, 48, 48, 56>>
    /\ call.c = 0
    /\ EscapeConsumed = 3

\* \xg: no hexadecimal digit after the x
C36_WitnessHexError ==
    /\ call.op = "read_escaped_char"
    /\ made[1] = <<120, 103>>
    /\ err = "error"

\* \uD800 is rejected, \u0024 gives '$', \U00000000 is rejected
C36_WitnessSurrogate ==
    /\ call.op = "read_escaped_char"
    /\ made[1] = <<117, 68, 56, 48, 48>>
    /\ err = "error"

C36_WitnessDollar ==
    /\ call.op = "read_escaped_char"
    /\ made[1] = <<117, 48, 48, 50, 52>>
    /\ err = ""
    /\ call.c = 36

C36_WitnessLong ==
    /\ call.op = "read_escaped_char"
    /\ made[1] = <<85, 48, 48, 48, 48, 48, 48, 48, 48>>
    /\ err = "error"


(***************************************************************************)
(* The two kinds of stream side by side: a file stream in files and a      *)
(* string stream of the same content, both read to their end with readc()  *)
(***************************************************************************)
\* length of the content of the two streams, at most
MaxBackLen == 4

\* a letter, newline, carriage return, backslash and the bytes 0x80 and 0xFF
BackingBytes == {97, 10, 13, 92, 128, 255}

BackingContents == UNION {[1..n -> BackingBytes] : n \in 0..MaxBackLen}

\* the world of the string stream, kept in call.string
StringWorld == [files |-> call.string, stashed |-> <<>>, err |-> ""]

InitBacking ==
    /\ charSigned \in BOOLEAN
    /\ InitMapVars
    /\ IdleDataVars
    /\ \E data \in BackingContents :
          /\ files = <<make_file(1, data)>>
          /\ made = <<data>>
          /\ call = [op |-> "none", cf |-> 0, cs |-> 0, string |-> <<make_file_string(2, data)>>]
    /\ lastc = <<0>>
    /\ stashed = <<>>
    /\ err = ""
    /\ trail = <<>>
    /\ ended = {}
    /\ buffers = <<>>
    /\ pos = [line |-> 0, column |-> 0]
    /\ statics = [k \in StaticKinds |-> [bol |-> FALSE, space |-> FALSE]]
    /\ rest = 0
    /\ total = 0
    /\ log = <<>>
    /\ lineTok = FALSE
    /\ ungot = <<>>
    /\ levels = <<>>
    /\ nops = 0

ReadcBothDone(rf, rs) ==
    /\ files' = rf.w.files
    /\ call' = [op |-> "readc", cf |-> rf.c, cs |-> rs.c, string |-> rs.w.files]
    /\ nops' = nops + 1

\* cf = readc() on the file stream and cs = readc() on the string stream,
\* until both have returned EOF
ReadcBoth ==
    /\ call.op = "none" \/ call.cf # EOF \/ call.cs # EOF
    /\ ReadcBothDone(readc(World, charSigned), readc(StringWorld, charSigned))
    /\ UNCHANGED <<charSigned, mapVars, dataVars, stashed, err, trail, lastc, ended, made,
                   lexVars, ungot, levels>>

SpecBacking == InitBacking /\ [][ReadcBoth]_vars

\* C37: for the same content of bytes 0x01 to 0xFF, the file stream and the
\* string stream deliver the same sequence of readc results
C37_SameSequence == call.op = "readc" => call.cf = call.cs

\* the same where plain char is unsigned
C37_SameSequenceUnsigned == charSigned \/ C37_SameSequence

\* the same for contents of bytes below 0x80
C37_SameSequenceAscii ==
    (\A i \in 1..Len(made[1]) : made[1][i] < 128) => C37_SameSequence

\* the byte 0x80 comes out of the file stream as 128 and out of the string
\* stream as -128
C37_SignExtended ==
    /\ charSigned
    /\ made[1] = <<128>>
    /\ nops = 1
    /\ call.cf = 128
    /\ call.cs = 0 - 128

\* the byte 0xFF ends the string stream: the file stream delivers 255, 'a' and
\* a newline, the string stream EOF at once and then 'a'
C37_FalseEof ==
    /\ charSigned
    /\ made[1] = <<255, 97>>
    /\ nops = 2
    /\ call.cf = 97
    /\ call.cs = 97
    /\ Len(call.string[1].data) = 2
    /\ call.string[1].last = 97


(***************************************************************************)
(* Tokens at the end of an included stream: lex_init on a file, a second   *)
(* file pushed onto it with stream_push, then lex()                        *)
(***************************************************************************)
\* the pieces of the included files: 'a', '"', '\', ' ' and newline
BoundaryFrags == {<<97>>, <<34>>, <<92>>, <<32>>, <<10>>}

BoundaryContents == {Flatten(ss) : ss \in UNION {[1..n -> BoundaryFrags] : n \in 0..MaxFrags}}

\* the files the included file is pushed onto: "b", "b\"" and " b"
BoundaryBases == {<<98>>, <<98, 34>>, <<32, 98>>}

InitBoundary ==
    /\ charSigned = FALSE
    /\ InitMapVars
    /\ IdleDataVars
    /\ \E data \in BoundaryContents, base \in BoundaryBases :
          InitCommentOn(stream_push(lex_init(base), make_file(2, data)), <<base, data>>)
    /\ trail = <<>>
    /\ lastc = <<0>>
    /\ ended = {}
    /\ log = <<>>
    /\ lineTok = FALSE
    /\ call = [op |-> "none"]
    /\ ungot = <<>>
    /\ levels = <<>>
    /\ nops = 0

SpecBoundary == InitBoundary /\ [][Lex]_vars

\* the number of characters readc delivers from the included stream
RefTopCount == Len(CharSeq(lex_init(made[2]), charSigned))

\* the stream that the i-th character readc delivers is read from
RefOrigin(i) == IF i <= RefTopCount THEN 2 ELSE 1

\* the index of the first character of the token of log entry e among the
\* characters readc delivers
TokenStart(e) == (total - e.tok.at) + 1

\* the index of the last character that has been taken from the streams
LastChar == total - CharsLeft(LexWorld, charSigned)

\* the token lex() returned last is one that make_token allocated
LastAllocated == log # <<>> /\ err = "" /\ log[Len(log)].tok.kind \notin StaticKinds

\* C38: the file field of a token is the stream its first character was read
\* from, and all its characters come from that stream
C38_OneStream ==
    LastAllocated =>
        /\ log[Len(log)].tok.file = RefOrigin(TokenStart(log[Len(log)]))
        /\ RefOrigin(LastChar) = RefOrigin(TokenStart(log[Len(log)]))

\* the same for included files without a backslash and a double quote
C38_OneStreamPlain ==
    (\A k \in 1..Len(made[2]) : made[2][k] \notin {92, 34}) => C38_OneStream

\* the file field is the stream that is current when the token is complete
C38_FileAtEnd ==
    LastAllocated => log[Len(log)].tok.file = vec_tail(files).id

\* the included file is a\ and the file beneath it b: the identifier "ab" is
\* returned, with the file beneath as its file
C38_Spliced ==
    /\ made = <<<<98>>, <<97, 92>>>>
    /\ Len(log) = 1
    /\ log[1].tok.kind = TIDENT
    /\ log[1].tok.sval = <<97, 98, 0>>
    /\ log[1].tok.file = 1

\* the included file is "a and the file beneath it b": one string literal
C38_StringAcross ==
    /\ made = <<<<98, 34>>, <<34, 97>>>>
    /\ Len(log) = 1
    /\ log[1].tok.kind = TSTRING
    /\ log[1].tok.sval = <<97, 10, 98, 0>>
    /\ log[1].tok.file = 1


(***************************************************************************)
(* The map under churn: a ring of keys put into one map in turn, the       *)
(* oldest one removed in between                                           *)
(***************************************************************************)
\* number of map_put calls of the churn driver, at most
MaxChurn == 40

\* number of keys of the ring
RingSize == 26

\* the keys of the ring: the single letters from 'a' on
RingKey(n) == <<97 + (n % RingSize), 0>>

\* map_put of the next key of the ring
PutNext ==
    /\ fillPut < MaxChurn
    /\ fillPut - fillRem < RingSize
    /\ maps' = [maps EXCEPT ![2] = map_put(maps[2], RingKey(fillPut), 1, charSigned)]
    /\ lastOp' = [op |-> "put", m |-> 2, key |-> RingKey(fillPut)]
    /\ fillPut' = fillPut + 1
    /\ UNCHANGED <<charSigned, fillRem, probeOps, bind, lastRehash, dataVars, streamVars,
                   lexVars, callVars>>

\* map_remove of the key that was put longest ago
RemoveOldest ==
    /\ fillRem < fillPut
    /\ maps' = [maps EXCEPT ![2] = map_remove(maps[2], RingKey(fillRem), charSigned)]
    /\ lastOp' = [op |-> "remove", m |-> 2, key |-> RingKey(fillRem)]
    /\ fillRem' = fillRem + 1
    /\ UNCHANGED <<charSigned, fillPut, probeOps, bind, lastRehash, dataVars, streamVars,
                   lexVars, callVars>>

NextChurn == PutNext \/ RemoveOldest

SpecChurn == InitMap /\ [][NextChurn]_vars

\* the slots of m that were never used
EmptySlots(m) == {i \in 0..(m.size - 1) : m.key[i] = NULL}

\* C39: after any sequence of map_put and map_remove calls every table has a
\* slot that was never used, nused being less than the capacity, so that the
\* probe loops of map_get, map_put and map_remove come to an end
C39_EmptySlot ==
    \A m \in 1..2 :
        /\ maps[m].nused < maps[m].size
        /\ EmptySlots(maps[m]) # {}

\* the fullest table of 32 slots there is: a put into a table with 22 slots
\* in use, some of them tombstones
C39_Witness ==
    /\ lastOp.op = "put"
    /\ maps[2].size = 2 * INIT_SIZE
    /\ maps[2].nused = 23
    /\ maps[2].nelem < 23
    /\ Cardinality(EmptySlots(maps[2])) = 9

\* the fullest table of 16 slots
C39_WitnessSmall ==
    /\ lastOp.op = "put"
    /\ maps[2].size = INIT_SIZE
    /\ maps[2].nused = 12
    /\ Cardinality(EmptySlots(maps[2])) = 4


(***************************************************************************)
(* buffer.c: the Buffer, a growing array of bytes                          *)
(***************************************************************************)
BUFFER_INIT_SIZE == 8

\* the value of a byte of malloc'd memory that has not been written
Indeterminate == 0 - 1

\* body[i] = c for the C index i; oob records a store outside the nalloc bytes of the body
Store(b, i, c) ==
    IF i >= b.nalloc \/ i < 0 THEN [b EXCEPT !.oob = TRUE]
    ELSE [b EXCEPT !.body[i + 1] = c]

make_buffer ==
    [body |-> [i \in 1..BUFFER_INIT_SIZE |-> Indeterminate], nalloc |-> BUFFER_INIT_SIZE,
     len |-> 0, oob |-> FALSE]

realloc_body(b) ==
    [b EXCEPT !.body = [i \in 1..(b.nalloc * 2) |-> IF i <= b.len THEN b.body[i]
                                                     ELSE Indeterminate],
              !.nalloc = b.nalloc * 2]

\* b->body[b->len++] = c
StoreNext(b, c) == [Store(b, b.len, c % 256) EXCEPT !.len = b.len + 1]

\* mutant: the body grows only when len has reached nalloc
buf_write_full(b, c) == StoreNext(IF b.nalloc = b.len THEN realloc_body(b) ELSE b, c)

\* buf_write on the Buffer object
buf_write_to(b, c) == StoreNext(IF b.nalloc = b.len + 1 THEN realloc_body(b) ELSE b, c)

\* for (int i = 0; i < len; i++) buf_write(b, s[i]);
RECURSIVE BufAppendLoop(_, _, _, _)
BufAppendLoop(b, s, i, len) ==
    IF i < len THEN BufAppendLoop(buf_write_to(b, s[i + 1]), s, i + 1, len) ELSE b

buf_append(b, s, len) == BufAppendLoop(b, s, 0, len)

RECURSIVE StoreSeq(_, _, _)
StoreSeq(b, i, s) == IF s = <<>> THEN b ELSE StoreSeq(Store(b, i, s[1]), i + 1, Tail(s))

\* the first n bytes of out and a NUL, stored from body[len] on
StoreTruncated(b, out, n) == Store(StoreSeq(b, b.len, SubSeq(out, 1, n)), b.len + n, 0)

\* vsnprintf(b->body + b->len, avail, fmt, args), out being the formatted text:
\* at most avail - 1 bytes of it and a NUL are stored, nothing when avail is 0
vsnprintf(b, avail, out) ==
    IF avail <= 0 THEN b
    ELSE StoreTruncated(b, out, IF Len(out) < avail - 1 THEN Len(out) ELSE avail - 1)

RECURSIVE buf_printf(_, _)

\* after vsnprintf, which returns written = Len(out)
PrintfOn(b0, b1, avail, out) ==
    IF avail <= Len(out) THEN buf_printf(realloc_body(b1), out)
    ELSE [b1 EXCEPT !.len = b0.len + Len(out)]

\* buf_printf(b, fmt, ...), out being the text that fmt and the arguments format to
buf_printf(b, out) == PrintfOn(b, vsnprintf(b, b.nalloc - b.len, out), b.nalloc - b.len, out)

(***************************************************************************)
(* The buffer driver: make_buffer, then buf_write, buf_append, buf_printf  *)
(***************************************************************************)
\* number of bytes written to the buffer, at most
MaxBufLen == 17

\* the bytes, strings and formatted texts the driver writes
BufBytes == {97}

BufStrings == {<<98, 99>>}

BufTexts == {<<49, 50, 51, 52, 53, 54, 55>>, <<49, 50, 51, 52, 53, 54, 55, 56>>}

InitBuffer ==
    /\ charSigned = FALSE
    /\ InitMapVars
    /\ IdleStreamVars
    /\ IdleLexVars
    /\ vectors = <<>>
    /\ strbuf = make_buffer
    /\ wrote = <<>>

BufFrame == UNCHANGED <<charSigned, mapVars, streamVars, lexVars, ungot, levels, nops, vectors>>

BufDone(b, s, op) ==
    /\ Len(wrote) + Len(s) <= MaxBufLen
    /\ strbuf' = b
    /\ wrote' = wrote \o s
    /\ call' = [op |-> op, n |-> Len(s)]
    /\ BufFrame

\* buf_write(b, c)
BufWrite == \E c \in BufBytes : BufDone(buf_write_to(strbuf, c), <<c>>, "buf_write")

\* buf_append(b, s, len)
BufAppend == \E s \in BufStrings : BufDone(buf_append(strbuf, s, Len(s)), s, "buf_append")

\* buf_printf(b, fmt, ...)
BufPrintf == \E out \in BufTexts : BufDone(buf_printf(strbuf, out), out, "buf_printf")

NextBuffer == BufWrite \/ BufAppend \/ BufPrintf

SpecBuffer == InitBuffer /\ [][NextBuffer]_vars

\* C40: after any sequence of buf_write, buf_append and buf_printf calls len is
\* less than nalloc, nalloc is a power of two not less than 8, the first len
\* bytes of the body are the bytes written, in order, and no byte has been
\* stored outside the nalloc bytes of the body
C40_Buffer ==
    /\ strbuf.len < strbuf.nalloc
    /\ IsPow2(strbuf.nalloc)
    /\ strbuf.nalloc >= 8
    /\ Len(strbuf.body) = strbuf.nalloc
    /\ strbuf.len = Len(wrote)
    /\ SubSeq(strbuf.body, 1, strbuf.len) = wrote
    /\ ~strbuf.oob

\* a buf_printf that fills a body of 16 bytes up to its last byte, which holds the NUL
C40_Witness ==
    /\ call.op = "buf_printf"
    /\ call.n = 8
    /\ strbuf.nalloc = 16
    /\ strbuf.len = 15
    /\ strbuf.body[16] = 0

\* a buf_printf into a body of 16 bytes that holds 8: the 8 bytes of the text and
\* their NUL do not fit, and the body grows to 32 bytes
C40_WitnessGrown ==
    /\ call.op = "buf_printf"
    /\ strbuf.nalloc = 32
    /\ strbuf.len = 16
    /\ Len(wrote) = 16

\* a buf_append whose second byte made the body grow
C40_WitnessAppend ==
    /\ call.op = "buf_append"
    /\ strbuf.nalloc = 16
    /\ strbuf.len = 8

====
